---- MODULE Spec2Model ----
(***************************************************************************)
(* Monthly quota ("metas") dashboard: new_tendency_analysis.py.            *)
(*                                                                         *)
(* The script is one top-level batch run.  Its pure parts are modelled as  *)
(* operators, its module-level tables as variables, and each part of the   *)
(* run as one action that reads its inputs (the SQL result, the selected   *)
(* month, today's date) from a bounded set and computes what the code      *)
(* computes.  Each part has its own specification over the same variables: *)
(*   SpecKey     normalize_folio_key                                       *)
(*   SpecCal     mexico_puentes / workable_equiv_between                   *)
(*   SpecProg    load_programadas_split_by_exec                            *)
(*   SpecMeta    the simulation table and the quota table of the month     *)
(*   SpecSanity  the quota table, then the gap table and its rollups       *)
(*                                                                         *)
(* Representation.                                                         *)
(*   - A Python str is a sequence of one-character strings; an accented    *)
(*     letter is one element ("o_acute").                                  *)
(*   - A Python value that may be None / NaN / str is a tagged record.     *)
(*   - A date is its proleptic Gregorian ordinal (date.toordinal()).       *)
(*   - workable-day values are multiples of 0.5 and are kept doubled       *)
(*     (total2 = 2 * total), so they are integers.                         *)
(*   - An average is the exact fraction [num, den] of the float division   *)
(*     sum / count; for the small integers involved the float comparisons  *)
(*     (>= 7, >= 6) and np.floor agree with the exact ones.                *)
(***************************************************************************)
EXTENDS Integers, Sequences, FiniteSets, TLC

VARIABLES
    pc,          \* position of the run
    folio_in,    \* argument x of normalize_folio_key
    folio_key,   \* its return value
    year,        \* mexico_puentes: argument
    puentes,     \* mexico_puentes: the set returned
    start_d,     \* workable_equiv_between: arguments
    end_d,
    total,       \* workable_equiv_between: the value returned, in half days
    df_prog,     \* load_programadas_split_by_exec: the rows read_sql returned
    prog_split,  \* load_programadas_split_by_exec: the table returned (g)
    pivot_sim,   \* df_sim after the pivot: one row of monthly counts per executive
    df_sim,      \* the simulation table
    meta_total_all,
    pivot_metas, \* df_metas after the pivot, with the sales of the target month
    df_metas,    \* the quota table of the target month (active executives)
    df_metas_view, \* its displayed columns, sorted
    df_global,   \* the global quota rollup
    meta_month_key, \* the target month, [y, m]
    today_d,     \* date.today()
    dias_hab_eq_total,     \* in half days, as the next two
    dias_hab_eq_elapsed,
    dias_hab_eq_remaining,
    df_sanity_exec,
    tmp_for_style, \* expected count and on-track flag per row of df_sanity_exec
    df_sanity_team,
    df_sanity_centro,
    df_sanity_global,
    empleados,   \* the personnel table: Nombre, Fecha Ingreso
    ventas,      \* the sales loaded: EJECUTIVO, T_DT
    ingreso_map_norm,     \* normalised name -> earliest hire date
    first_dt_ventas_norm, \* normalised name -> earliest sale
    ref_day,     \* the first day of the target month
    name_in,     \* argument s of normalize_name
    name_key,    \* its return value
    df_export_base,     \* the sales of the months selected for the simulation
    months_selected,
    tally_sim,          \* df_sim as the pivot leaves it: EJECUTIVO and a count per month
    ventas_flt,         \* the sales after the sidebar filters
    meta_month_options, \* the months that have sales, in order
    meta_window_keys,   \* the months averaged for the quota
    tally_metas,        \* df_metas as the pivot leaves it
    reporte,            \* the rows of reporte_programacion_entrega for the store and the dates
    df_transito,        \* load_transito_flags: the rows read_sql returned
    transito_flags,     \* load_transito_flags: the table returned (out)
    m_sel,              \* the months selected in the month filter
    w_sel,              \* the weeks selected in the week filter
    ventas_raw,         \* the sales as load_ventas returns them
    df_metas_activos    \* df_metas after the rows that are not ACTIVO are dropped

keyVars == <<folio_in, folio_key>>
calVars == <<year, puentes, start_d, end_d, total>>
progVars == <<df_prog, prog_split>>
metaVars == <<pivot_sim, df_sim, meta_total_all, pivot_metas, df_metas, df_metas_view, df_global>>
sanityVars ==
    << meta_month_key, today_d, dias_hab_eq_total, dias_hab_eq_elapsed, dias_hab_eq_remaining,
       df_sanity_exec, tmp_for_style, df_sanity_team, df_sanity_centro, df_sanity_global >>
ventasVars == <<empleados, ventas, ingreso_map_norm, first_dt_ventas_norm, ref_day>>
nameVars == <<name_in, name_key>>
tallyVars ==
    << df_export_base, months_selected, tally_sim, ventas_flt, meta_month_options,
       meta_window_keys, tally_metas >>
reportVars == <<reporte>>
flagVars == <<df_transito, transito_flags>>
pageVars == <<m_sel, w_sel>>
joinVars == <<ventas_raw>>
activosVars == <<df_metas_activos>>
vars ==
    <<pc, keyVars, calVars, progVars, metaVars, sanityVars, ventasVars, nameVars, tallyVars,
      reportVars, flagVars, pageVars, joinVars, activosVars>>

(***************************************************************************)
(* Python values and strings                                               *)
(***************************************************************************)
PyNone == [kind |-> "none"]
PyNaN == [kind |-> "float_nan"]
PyStr(s) == [kind |-> "str", s |-> s]

\* str(x)
str(v) ==
    IF v.kind = "none" THEN <<"N", "o", "n", "e">>
    ELSE IF v.kind = "float_nan" THEN <<"n", "a", "n">>
    ELSE v.s

Whitespace == {" "}
Digits == {"0", "1", "2", "3", "4", "5", "6", "7", "8", "9"}

UpperCase ==
    <<"A", "B", "C", "D", "E", "F", "G", "H", "I", "J", "K", "L", "M", "N",
      "O", "P", "Q", "R", "S", "T", "U", "V", "W", "X", "Y", "Z", "O_ACUTE">>
LowerCase ==
    <<"a", "b", "c", "d", "e", "f", "g", "h", "i", "j", "k", "l", "m", "n",
      "o", "p", "q", "r", "s", "t", "u", "v", "w", "x", "y", "z", "o_acute">>

lower_char(c) ==
    IF \E i \in 1..Len(UpperCase) : UpperCase[i] = c
    THEN LowerCase[CHOOSE i \in 1..Len(UpperCase) : UpperCase[i] = c]
    ELSE c
upper_char(c) ==
    IF \E i \in 1..Len(LowerCase) : LowerCase[i] = c
    THEN UpperCase[CHOOSE i \in 1..Len(LowerCase) : LowerCase[i] = c]
    ELSE c

\* str.lower(), str.upper()
lower(s) == [i \in 1..Len(s) |-> lower_char(s[i])]
upper(s) == [i \in 1..Len(s) |-> upper_char(s[i])]

RECURSIVE lstrip(_)
lstrip(s) == IF s # <<>> /\ Head(s) \in Whitespace THEN lstrip(Tail(s)) ELSE s
RECURSIVE rstrip(_)
rstrip(s) ==
    IF s # <<>> /\ s[Len(s)] \in Whitespace
    THEN rstrip(SubSeq(s, 1, Len(s) - 1))
    ELSE s
\* str.strip()
strip(s) == rstrip(lstrip(s))

\* str.strip("0")
RECURSIVE lstrip0(_)
lstrip0(s) == IF s # <<>> /\ Head(s) = "0" THEN lstrip0(Tail(s)) ELSE s
RECURSIVE rstrip0(_)
rstrip0(s) ==
    IF s # <<>> /\ s[Len(s)] = "0" THEN rstrip0(SubSeq(s, 1, Len(s) - 1)) ELSE s
strip0(s) == rstrip0(lstrip0(s))

\* str.isdigit(): non-empty and every character a digit
isdigit(s) == s # <<>> /\ \A i \in 1..Len(s) : s[i] \in Digits

\* str.endswith(".0")
endswith_dot0(s) == Len(s) >= 2 /\ s[Len(s) - 1] = "." /\ s[Len(s)] = "0"

\* "." in s, and s.split(".", 1)
has_dot(s) == \E i \in 1..Len(s) : s[i] = "."
first_dot(s) == CHOOSE i \in 1..Len(s) : s[i] = "." /\ \A j \in 1..(i - 1) : s[j] # "."
split_left(s) == SubSeq(s, 1, first_dot(s) - 1)
split_right(s) == SubSeq(s, first_dot(s) + 1, Len(s))

\* s.split(): the maximal runs of non-whitespace characters
RECURSIVE word_len(_)
word_len(s) == IF s = <<>> \/ Head(s) \in Whitespace THEN 0 ELSE 1 + word_len(Tail(s))
RECURSIVE split_ws(_)
split_ws(s) ==
    LET t == lstrip(s) IN
    IF t = <<>> THEN <<>>
    ELSE <<SubSeq(t, 1, word_len(t))>> \o split_ws(SubSeq(t, word_len(t) + 1, Len(t)))
\* " ".join(words)
RECURSIVE join_sp(_)
join_sp(ws) ==
    IF ws = <<>> THEN <<>>
    ELSE IF Len(ws) = 1 THEN ws[1]
    ELSE ws[1] \o <<" ">> \o join_sp(Tail(ws))

\* unicodedata.normalize("NFKD", s): an accented letter becomes the base letter
\* followed by a combining mark, and the accent typed on its own ("ACUTE",
\* U+00B4, not whitespace) a space followed by the mark;
\* unicodedata.combining(c) is nonzero for the mark
Combining == {"COMBINING_ACUTE"}
nfkd_char(c) ==
    IF c = "O_ACUTE" THEN <<"O", "COMBINING_ACUTE">>
    ELSE IF c = "o_acute" THEN <<"o", "COMBINING_ACUTE">>
    ELSE IF c = "ACUTE" THEN <<" ", "COMBINING_ACUTE">>
    ELSE <<c>>
RECURSIVE nfkd(_)
nfkd(s) == IF s = <<>> THEN <<>> ELSE nfkd_char(Head(s)) \o nfkd(Tail(s))
drop_combining(s) == SelectSeq(s, LAMBDA c : c \notin Combining)

normalize_name(v) ==
    LET s0 == IF v.kind = "none" THEN <<>> ELSE str(v)
        s1 == upper(strip(s0))
        s2 == join_sp(split_ws(s1))
    IN drop_combining(nfkd(s2))

\* Inputs of SpecName: None and every text of up to MaxNameLen characters
\* among a lower-case and an upper-case letter, a space, an accented letter
\* and an accent on its own.
MaxNameLen == 4
NameChars == {"a", "B", " ", "o_acute", "ACUTE"}
NameInputs == {PyNone} \cup {PyStr(s) : s \in UNION {[1..n -> NameChars] : n \in 0..MaxNameLen}}

(***************************************************************************)
(* normalize_folio_key                                                     *)
(***************************************************************************)
NanText == <<"n", "a", "n">>
NoneText == <<"n", "o", "n", "e">>

\* the float-like rule written without the left.isdigit() test
normalize_folio_key_any_left(x) ==
    IF x.kind = "none" THEN <<>>
    ELSE
      LET s == strip(str(x)) IN
      IF s = <<>> \/ lower(s) \in {NanText, NoneText} THEN <<>>
      ELSE IF endswith_dot0(s) /\ isdigit(SubSeq(s, 1, Len(s) - 2))
           THEN SubSeq(s, 1, Len(s) - 2)
      ELSE IF has_dot(s) /\ strip0(split_right(s)) = <<>>
           THEN split_left(s)
      ELSE s

normalize_folio_key(x) ==
    IF x.kind = "none" THEN <<>>
    ELSE
      LET s == strip(str(x)) IN
      IF s = <<>> \/ lower(s) \in {NanText, NoneText} THEN <<>>
      ELSE IF endswith_dot0(s) /\ isdigit(SubSeq(s, 1, Len(s) - 2))
           THEN SubSeq(s, 1, Len(s) - 2)
      ELSE IF has_dot(s) /\ isdigit(split_left(s)) /\ strip0(split_right(s)) = <<>>
           THEN split_left(s)
      ELSE s

\* Inputs: None, NaN, every string over KeyChars up to MaxKeyLen, and the
\* spellings named in the documentation.
MaxKeyLen == 4
KeyChars == {"0", "1", ".", "a", " "}
KeyExamples ==
    { <<"4", "4", "1", "2", ".", "0">>, <<"4", "4", "1", "2">>, <<"a", "b", "c">>,
      <<"1", "2", "3", ".", "0", "0">>,
      <<"n", "a", "n">>, <<"N", "a", "N">>, <<"N", "o", "n", "e">>,
      <<"n", "o", "n", "e">>, <<"N", "O", "N", "E">>, <<" ", "n", "a", "n", " ">> }
KeyStrings == UNION {[1..n -> KeyChars] : n \in 0..MaxKeyLen}
KeyInputs == {PyNone, PyNaN} \cup {PyStr(s) : s \in KeyStrings \cup KeyExamples}

\* df["FOLIO"].apply(normalize_folio_key), one value
FolioKey(x) ==
    /\ pc = "idle"
    /\ pc' = "folio"
    /\ folio_in' = x
    /\ folio_key' = normalize_folio_key(x)
    /\ UNCHANGED <<calVars, progVars, metaVars, sanityVars, ventasVars, nameVars, tallyVars, reportVars, flagVars, pageVars, joinVars, activosVars>>

NextKey == pc = "idle" /\ \E x \in KeyInputs : FolioKey(x)

(***************************************************************************)
(* Dates: datetime.date as its ordinal (date.toordinal(), 0001-01-01 = 1)  *)
(***************************************************************************)
\* Inputs: every year of FirstYear .. FirstYear + NumYears - 1 for the holiday
\* set; every start date of the NumDays days from FirstDay (2021-12-01) and
\* every end date from Back days before the start to MaxSpan days after it.
FirstYear == 2020
NumYears == 28
FirstDay == 738125
NumDays == 400
Back == 2
MaxSpan == 35
Years == FirstYear..(FirstYear + NumYears - 1)
StartDays == FirstDay..(FirstDay + NumDays - 1)
AllDays == (FirstDay - Back)..(FirstDay + NumDays - 1 + MaxSpan)
IsLeap(y) == (y % 4 = 0 /\ y % 100 # 0) \/ y % 400 = 0
DaysBeforeYear(y) == (y - 1) * 365 + (y - 1) \div 4 - (y - 1) \div 100 + (y - 1) \div 400
DaysInMonth(y, m) ==
    IF m = 2 THEN (IF IsLeap(y) THEN 29 ELSE 28)
    ELSE IF m \in {4, 6, 9, 11} THEN 30
    ELSE 31
RECURSIVE DaysBeforeMonth(_, _)
DaysBeforeMonth(y, m) ==
    IF m = 1 THEN 0 ELSE DaysBeforeMonth(y, m - 1) + DaysInMonth(y, m - 1)
\* date(y, m, d)
Date(y, m, d) == DaysBeforeYear(y) + DaysBeforeMonth(y, m) + d
\* d.year, d.month, d.day, d.weekday() (Monday = 0)
year_of(n) ==
    CHOOSE y \in (n \div 366)..(n \div 365 + 1) :
        DaysBeforeYear(y) < n /\ n <= DaysBeforeYear(y + 1)
month_of(n) ==
    CHOOSE m \in 1..12 :
        /\ Date(year_of(n), m, 1) <= n
        /\ n < Date(year_of(n), m, 1) + DaysInMonth(year_of(n), m)
\* the same, tabulated once over the days of the model (the year over every
\* day of the years of Years)
CalendarDays == (Date(FirstYear, 1, 1) - Back)..(Date(FirstYear + NumYears, 1, 1) + MaxSpan)
YearTable == [n \in CalendarDays |-> year_of(n)]
MonthTable == [n \in AllDays |-> month_of(n)]
YearOf(n) == YearTable[n]
MonthOf(n) == MonthTable[n]
DayOf(n) == n - Date(YearOf(n), MonthOf(n), 1) + 1
weekday(n) == (n + 6) % 7

(***************************************************************************)
(* Business calendar                                                       *)
(***************************************************************************)
\* the shift computed with the subtraction the other way round
nth_weekday_of_month_swapped(y, m, wd, n) ==
    LET d == Date(y, m, 1)
        shift == (weekday(d) - wd) % 7
    IN Date(y, m, (1 + shift) + 7 * (n - 1))

nth_weekday_of_month(y, m, wd, n) ==
    LET d == Date(y, m, 1)
        shift == (wd - weekday(d)) % 7
    IN Date(y, m, (1 + shift) + 7 * (n - 1))

mexico_puentes_of(y) ==
    { Date(y, 1, 1),
      nth_weekday_of_month(y, 2, 0, 1),
      nth_weekday_of_month(y, 3, 0, 3),
      Date(y, 5, 1),
      Date(y, 9, 16),
      nth_weekday_of_month(y, 11, 0, 3),
      Date(y, 12, 25) }
\* the same, tabulated once over the years of the model
PuentesTable == [y \in (FirstYear - 1)..(FirstYear + NumYears) |-> mexico_puentes_of(y)]
mexico_puentes(y) == PuentesTable[y]

\* the for loop of workable_equiv_between from day d on; p is the local set
\* `puentes`, t the local `total` in half days
RECURSIVE web_loop(_, _, _, _, _)
web_loop(d, last, start_year, p, t) ==
    IF d > last THEN t
    ELSE
      LET p2 == IF YearOf(d) # start_year THEN p \cup mexico_puentes(YearOf(d)) ELSE p
          wd == weekday(d)
      IN IF d \in p2 THEN web_loop(d + 1, last, start_year, p2, t)
         ELSE IF wd <= 4 THEN web_loop(d + 1, last, start_year, p2, t + 2)
         ELSE IF wd = 5 THEN web_loop(d + 1, last, start_year, p2, t + 1)
         ELSE web_loop(d + 1, last, start_year, p2, t)

\* the loop with the holiday set of the start year only
RECURSIVE web_loop_start_year(_, _, _, _, _)
web_loop_start_year(d, last, start_year, p, t) ==
    IF d > last THEN t
    ELSE
      LET wd == weekday(d)
      IN IF d \in p THEN web_loop_start_year(d + 1, last, start_year, p, t)
         ELSE IF wd <= 4 THEN web_loop_start_year(d + 1, last, start_year, p, t + 2)
         ELSE IF wd = 5 THEN web_loop_start_year(d + 1, last, start_year, p, t + 1)
         ELSE web_loop_start_year(d + 1, last, start_year, p, t)
workable_equiv_between_start_year(s, e) ==
    IF e < s THEN 0
    ELSE web_loop_start_year(s, e, YearOf(s), mexico_puentes(YearOf(s)), 0)

\* the guard written with the comparison reversed
workable_equiv_between_guard_reversed(s, e) ==
    IF e > s THEN 0
    ELSE web_loop(s, e, YearOf(s), mexico_puentes(YearOf(s)), 0)

workable_equiv_between(s, e) ==
    IF e < s THEN 0
    ELSE web_loop(s, e, YearOf(s), mexico_puentes(YearOf(s)), 0)


MexicoPuentes(y) ==
    /\ pc = "idle"
    /\ pc' = "puentes"
    /\ year' = y
    /\ puentes' = mexico_puentes(y)
    /\ UNCHANGED <<start_d, end_d, total>>
    /\ UNCHANGED <<keyVars, progVars, metaVars, sanityVars, ventasVars, nameVars, tallyVars, reportVars, flagVars, pageVars, joinVars, activosVars>>

WorkableEquivBetween(s, e) ==
    /\ pc = "idle"
    /\ pc' = "web"
    /\ start_d' = s
    /\ end_d' = e
    /\ total' = workable_equiv_between(s, e)
    /\ UNCHANGED <<year, puentes>>
    /\ UNCHANGED <<keyVars, progVars, metaVars, sanityVars, ventasVars, nameVars, tallyVars, reportVars, flagVars, pageVars, joinVars, activosVars>>

NextCal ==
    \/ pc = "idle" /\ \E y \in Years : MexicoPuentes(y)
    \/ pc = "idle" /\ \E s \in StartDays :
           \E e \in (s - Back)..(s + MaxSpan) : WorkableEquivBetween(s, e)



(***************************************************************************)
(* load_programadas_split_by_exec                                          *)
(*                                                                         *)
(* A row of the DataFrame read from SQL is [VENDEDOR, ESTATUS, VENTA, n]:  *)
(* n is the number of identical rows it stands for, so that a vendor can   *)
(* have more deliveries than the table has distinct rows.                  *)
(***************************************************************************)
\* code point order of the characters of the model
CodePoints ==
    <<" ", ".", "0", "1", "2", "3", "4", "5", "6", "7", "8", "9">>
    \o SubSeq(UpperCase, 1, 26) \o SubSeq(LowerCase, 1, 26) \o <<"O_ACUTE", "o_acute">>
code(c) == CHOOSE i \in 1..Len(CodePoints) : CodePoints[i] = c
\* a < b for two str
RECURSIVE str_lt(_, _)
str_lt(a, b) ==
    IF b = <<>> THEN FALSE
    ELSE IF a = <<>> THEN TRUE
    ELSE IF Head(a) = Head(b) THEN str_lt(Tail(a), Tail(b))
    ELSE code(Head(a)) < code(Head(b))
\* a table built row by row, as the tuple of its rows
table(f) == f \o <<>>
\* the keys of a groupby, which sorts them
RECURSIVE sorted(_)
sorted(S) ==
    IF S = {} THEN <<>>
    ELSE LET mn == CHOOSE a \in S : \A b \in S \ {a} : str_lt(a, b)
         IN <<mn>> \o sorted(S \ {mn})

EN_ENTREGA == <<"E", "N", " ", "E", "N", "T", "R", "E", "G", "A">>
EN_PREPARACION == <<"E", "N", " ", "P", "R", "E", "P", "A", "R", "A", "C", "I", "O", "N">>
SOLICITADO == <<"S", "O", "L", "I", "C", "I", "T", "A", "D", "O">>
BACK_OFFICE == <<"B", "A", "C", "K", " ", "O", "F", "F", "I", "C", "E">>
ENTREGADO == <<"E", "N", "T", "R", "E", "G", "A", "D", "O">>
CANC_ERROR == <<"C", "A", "N", "C", " ", "E", "R", "R", "O", "R">>

\* _venta_vacia(x)
venta_vacia(x) ==
    IF x.kind = "none" THEN TRUE
    ELSE IF x.kind = "float_nan" THEN TRUE
    ELSE LET s == strip(str(x))
         IN s = <<>> \/ lower(s) = NanText \/ lower(s) = NoneText

\* the mask that cancels no row
is_canc_never(r) == FALSE
\* df["VENDEDOR"].astype(str).str.strip(), df["ESTATUS"].astype(str).str.strip(),
\* est_norm, is_transito, is_canc of one row
vendedor(r) == strip(str(r.VENDEDOR))
est_norm(r) == normalize_name(PyStr(strip(str(r.ESTATUS))))
is_transito(r) ==
    \/ est_norm(r) \in {EN_ENTREGA, EN_PREPARACION, SOLICITADO, BACK_OFFICE}
    \/ (est_norm(r) = ENTREGADO /\ venta_vacia(r.VENTA))
is_canc(r) == est_norm(r) = CANC_ERROR

\* the columns computed for every row read: the stripped vendor, is_transito
\* and is_canc
prog_flags(df) ==
    table([ i \in 1..Len(df) |->
              [ VENDEDOR |-> vendedor(df[i]),
                is_transito |-> is_transito(df[i]),
                is_canc |-> is_canc(df[i]),
                n |-> df[i].n ] ])
\* df[~is_canc], is_transito[~is_canc]
drop_canc(flags) == SelectSeq(flags, LAMBDA r : ~r.is_canc)

\* groupby("VENDEDOR").agg(sum) of the 0/1 columns transito_mes and hechas_mes
RECURSIVE sum_transito(_, _)
sum_transito(out, v) ==
    IF out = <<>> THEN 0
    ELSE (IF Head(out).VENDEDOR = v /\ Head(out).is_transito THEN Head(out).n ELSE 0)
         + sum_transito(Tail(out), v)
RECURSIVE sum_hechas(_, _)
sum_hechas(out, v) ==
    IF out = <<>> THEN 0
    ELSE (IF Head(out).VENDEDOR = v /\ ~Head(out).is_transito THEN Head(out).n ELSE 0)
         + sum_hechas(Tail(out), v)

\* g after total_mes and VEN_NORM are added
split_rows(kept) ==
    LET out == table(kept)
        keys == sorted({out[i].VENDEDOR : i \in 1..Len(out)})
    IN table([k \in 1..Len(keys) |->
          [ VENDEDOR |-> keys[k],
            hechas_mes |-> sum_hechas(out, keys[k]),
            transito_mes |-> sum_transito(out, keys[k]),
            total_mes |-> sum_hechas(out, keys[k]) + sum_transito(out, keys[k]),
            VEN_NORM |-> normalize_name(PyStr(keys[k])) ]])

load_programadas_split_by_exec(df) ==
    IF df = <<>> THEN <<>> ELSE split_rows(drop_canc(prog_flags(df)))

\* Inputs.  The statuses are the ones the query's IN list lets through under a
\* case- and accent-insensitive comparison that ignores trailing blanks.
ProgStatuses ==
    { <<"E", "n", " ", "e", "n", "t", "r", "e", "g", "a">>,
      <<"C", "a", "n", "c", " ", "E", "r", "r", "o", "r">>,
      <<"E", "n", "t", "r", "e", "g", "a", "d", "o">>,
      <<"E", "n", " ", "p", "r", "e", "p", "a", "r", "a", "c", "i", "o", "n">>,
      <<"E", "n", " ", "p", "r", "e", "p", "a", "r", "a", "c", "i", "o_acute", "n">>,
      <<"B", "a", "c", "k", " ", "O", "f", "f", "i", "c", "e">>,
      <<"S", "o", "l", "i", "c", "i", "t", "a", "d", "o">>,
      <<"E", "N", "T", "R", "E", "G", "A", "D", "O", " ">> }
VentaValues ==
    { PyNone, PyNaN, PyStr(<<>>), PyStr(<<" ", "N", "a", "N", " ">>),
      PyStr(<<"N", "o", "n", "e">>), PyStr(<<"7">>) }
ProgVendors ==
    { PyStr(<<"A", "n", "a">>), PyStr(<<" ", "A", "n", "a">>), PyStr(<<"A", "N", "A">>) }
\* one row of every kind; and tables of up to MaxRecs rows of the kinds that
\* differ for the counting, each standing for 1 or MaxRep identical rows
MaxRecs == 2
MaxRep == 2
FullRecords ==
    [ VENDEDOR : ProgVendors, ESTATUS : {PyStr(e) : e \in ProgStatuses},
      VENTA : VentaValues, n : {1} ]
CoarseKinds ==
    { [ESTATUS |-> PyStr(<<"E", "n", "t", "r", "e", "g", "a", "d", "o">>), VENTA |-> PyStr(<<"7">>)],
      [ESTATUS |-> PyStr(<<"E", "n", "t", "r", "e", "g", "a", "d", "o">>), VENTA |-> PyNone],
      [ESTATUS |-> PyStr(<<"E", "n", " ", "e", "n", "t", "r", "e", "g", "a">>), VENTA |-> PyNone],
      [ESTATUS |-> PyStr(<<"C", "a", "n", "c", " ", "E", "r", "r", "o", "r">>), VENTA |-> PyNone] }
CoarseRecords ==
    { [VENDEDOR |-> v, ESTATUS |-> k.ESTATUS, VENTA |-> k.VENTA, n |-> n] :
        v \in ProgVendors, k \in CoarseKinds, n \in {1, MaxRep} }
ProgInputs ==
    {<<r>> : r \in FullRecords}
    \cup UNION {[1..k -> CoarseRecords] : k \in 0..MaxRecs}

LoadProgramadasSplitByExec(df) ==
    /\ pc = "idle"
    /\ pc' = "prog"
    /\ df_prog' = df
    /\ prog_split' = load_programadas_split_by_exec(df)
    /\ UNCHANGED <<keyVars, calVars, metaVars, sanityVars, ventasVars, nameVars, tallyVars, reportVars, flagVars, pageVars, joinVars, activosVars>>

NextProg == pc = "idle" /\ \E df \in ProgInputs : LoadProgramadasSplitByExec(df)


(***************************************************************************)
(* The averaging step and the quota rule                                   *)
(*                                                                         *)
(* The code works on whole columns; a table is a sequence of rows and the  *)
(* arrays the code keeps beside the table (has_nonzero, first_idx, ...)    *)
(* are fields of the row.  The code is written twice, for the simulation   *)
(* table (df_sim) and for the quota table of the target month (df_metas),  *)
(* and so is the model.  The input of each is the pivoted table of monthly *)
(* counts; the averaging step is applied to every row of counts, also to   *)
(* an all-zero row, which the pivot itself never produces because the      *)
(* executives of the table are those of the rows counted.                  *)
(***************************************************************************)
NaT == [kind |-> "NaT"]
Days(k) == [kind |-> "days", d |-> k]

\* .fillna(0).astype(int).clip(lower=0) of a day difference
clip_days(x) == IF x.kind = "NaT" THEN 0 ELSE IF x.d < 0 THEN 0 ELSE x.d

\* np.cumsum(vals[:, ::-1], axis=1)[:, ::-1][row, j], j counted from 0
RECURSIVE suffix_sum(_, _)
suffix_sum(row, j) == IF j >= Len(row) THEN 0 ELSE row[j + 1] + suffix_sum(row, j + 1)
\* (row > 0).argmax(), counted from 0: the first True, 0 when there is none
argmax_nonzero(row) ==
    IF \E i \in 1..Len(row) : row[i] > 0
    THEN (CHOOSE i \in 1..Len(row) : row[i] > 0 /\ \A j \in 1..(i - 1) : ~(row[j] > 0)) - 1
    ELSE 0
\* np.floor of a fraction
floor(a) == a.num \div a.den

\* --- simulation table ---
\* the flag computed with >= in place of >
has_nonzero_ge(row) == \E i \in 1..Len(row) : row[i] >= 0
has_nonzero(row) == \E i \in 1..Len(row) : row[i] > 0
first_idx(row) == IF has_nonzero(row) THEN argmax_nonzero(row) ELSE 0
sum_active(row) == suffix_sum(row, first_idx(row))
count_active(row) == Len(row) - first_idx(row)
avg_active(row) ==
    IF has_nonzero(row)
    THEN [num |-> sum_active(row), den |-> count_active(row)]
    ELSE [num |-> 0, den |-> 1]

\* the rule with one step for every average from 6 on
meta_simulacion_one_step(ten, prom) ==
    IF ten < 41 THEN 6
    ELSE IF prom.num >= 6 * prom.den THEN floor(prom) + 1
    ELSE 7
meta_simulacion(ten, prom) ==
    IF ten < 41 THEN 6
    ELSE IF prom.num >= 7 * prom.den THEN floor(prom) + 1
    ELSE IF prom.num >= 6 * prom.den THEN floor(prom) + 2
    ELSE 7

status_sim(row) == IF row[Len(row)] > 0 THEN "ACTIVO" ELSE "BAJA"
\* the quota kept for an inactive executive
baja_keeps_meta(st, m) == m
\* df_sim.loc[df_sim["status"] == "BAJA", "meta simulacion"] = 0
baja_to_zero(st, m) == IF st = "BAJA" THEN 0 ELSE m

sim_row(inp) ==
    [ EJECUTIVO |-> inp.EJECUTIVO,
      Supervisor |-> inp.Supervisor,
      status |-> status_sim(inp.vals),
      dias_activo_al_1ro |-> clip_days(inp.dias),
      vals |-> inp.vals,
      has_nonzero |-> has_nonzero(inp.vals),
      first_idx |-> first_idx(inp.vals),
      sum_active |-> sum_active(inp.vals),
      count_active |-> count_active(inp.vals),
      promedio |-> avg_active(inp.vals),
      meta_simulacion |->
          baja_to_zero(status_sim(inp.vals),
                       meta_simulacion(clip_days(inp.dias), avg_active(inp.vals))) ]

RECURSIVE sum_meta_sim(_)
sum_meta_sim(rows) ==
    IF rows = <<>> THEN 0 ELSE Head(rows).meta_simulacion + sum_meta_sim(Tail(rows))

\* --- quota table of the target month ---
has_nz(row) == \E i \in 1..Len(row) : row[i] > 0
first_i(row) == IF has_nz(row) THEN argmax_nonzero(row) ELSE 0
ssum(row) == suffix_sum(row, first_i(row))
\* the count taken over the months with sales only
cnt_nonzero_months(row) == Cardinality({i \in 1..Len(row) : row[i] > 0})
cnt(row) == Len(row) - first_i(row)
avg3(row) ==
    IF has_nz(row) THEN [num |-> ssum(row), den |-> cnt(row)] ELSE [num |-> 0, den |-> 1]

\* the rule with > in place of >=
meta_mes_strict(ten, prom) ==
    IF ten < 41 THEN 6
    ELSE IF prom.num > 7 * prom.den THEN floor(prom) + 1
    ELSE IF prom.num > 6 * prom.den THEN floor(prom) + 2
    ELSE 7

meta_mes(ten, prom) ==
    IF ten < 41 THEN 6
    ELSE IF prom.num >= 7 * prom.den THEN floor(prom) + 1
    ELSE IF prom.num >= 6 * prom.den THEN floor(prom) + 2
    ELSE 7

status_metas(n_mes) == IF n_mes > 0 THEN "ACTIVO" ELSE "BAJA"

metas_row(inp) ==
    [ EJECUTIVO |-> inp.EJECUTIVO,
      Supervisor |-> inp.Supervisor,
      CentroKey |-> inp.CentroKey,
      status |-> status_metas(inp.n_mes),
      dias_activo_al_1ro |-> clip_days(inp.dias),
      win |-> inp.win,
      has_nz |-> has_nz(inp.win),
      first_i |-> first_i(inp.win),
      ssum |-> ssum(inp.win),
      cnt |-> cnt(inp.win),
      prom_ult_3m |-> avg3(inp.win),
      meta_mes_actual |-> meta_mes(clip_days(inp.dias), avg3(inp.win)) ]

\* df_metas[df_metas["status"] == "ACTIVO"], applied to the pivot rows
RECURSIVE activos(_)
activos(piv) ==
    IF piv = <<>> THEN <<>>
    ELSE IF status_metas(Head(piv).n_mes) = "ACTIVO"
         THEN <<Head(piv)>> \o activos(Tail(piv))
         ELSE activos(Tail(piv))

\* a float as a fraction; a > b and a = b for two of them
Frac(n, d) == [num |-> n, den |-> d]
frac_gt(a, b) == a.num * b.den > b.num * a.den
frac_eq(a, b) == a.num * b.den = b.num * a.den
\* the row with keys ka sorts before the row with keys kb, descending
RECURSIVE keys_gt(_, _)
keys_gt(ka, kb) ==
    IF ka = <<>> THEN FALSE
    ELSE IF frac_gt(Head(ka), Head(kb)) THEN TRUE
    ELSE IF frac_eq(Head(ka), Head(kb)) THEN keys_gt(Tail(ka), Tail(kb))
    ELSE FALSE
\* sort_values(columns, ascending=False) on several columns: stable;
\* keys[i] are the values of the sort columns in row i
sort_values_desc(df, by) ==
    LET t == table(df)
        keys == table(by)
        rank(i) ==
            Cardinality({ j \in 1..Len(t) :
                \/ keys_gt(keys[j], keys[i])
                \/ (~keys_gt(keys[i], keys[j]) /\ j < i) }) + 1
    IN table([p \in 1..Len(t) |-> t[CHOOSE i \in 1..Len(t) : rank(i) = p]])

\* df_metas_view: the displayed columns, by quota and average, descending
metas_view(df) ==
    LET t == table(df) IN
    sort_values_desc(
        [ i \in 1..Len(t) |->
            [ EJECUTIVO |-> t[i].EJECUTIVO, Supervisor |-> t[i].Supervisor,
              CentroKey |-> t[i].CentroKey, status |-> t[i].status,
              dias_activo_al_1ro |-> t[i].dias_activo_al_1ro, win |-> t[i].win,
              prom_ult_3m |-> t[i].prom_ult_3m, meta_mes_actual |-> t[i].meta_mes_actual ] ],
        [ i \in 1..Len(t) |-> <<Frac(t[i].meta_mes_actual, 1), t[i].prom_ult_3m>> ])

RECURSIVE sum_meta_mes(_)
sum_meta_mes(rows) ==
    IF rows = <<>> THEN 0 ELSE Head(rows).meta_mes_actual + sum_meta_mes(Tail(rows))

\* Inputs of SpecMeta: the table of one executive; every row of up to MaxMonths
\* monthly counts (WindowMonths for the quota table) in 0..MaxCount, and a few
\* longer or larger rows; a day difference that is missing, negative, or on
\* either side of the 41 days.
MaxMonths == 3
MaxCount == 8
WindowMonths == 3
DiasSamples == {NaT, Days(-5), Days(10), Days(40), Days(41), Days(100)}
Ana == PyStr(<<"A", "n", "a">>)
SUP1 == <<"S", "U", "P", "1">>
BAJA == <<"B", "A", "J", "A">>
JV == <<"J", "V">>
CC2 == <<"C", "C", "2">>
Beto == PyStr(<<"B", "e", "t", "o">>)
CountRowsUpTo(len) == UNION {[1..k -> 0..MaxCount] : k \in 1..len}
\* tables of two executives, over a few rows of counts
SimPairs ==
    { << [EJECUTIVO |-> Ana, Supervisor |-> SUP1, vals |-> r1, dias |-> d1],
         [EJECUTIVO |-> Beto, Supervisor |-> SUP1, vals |-> r2, dias |-> d2] >> :
        r1 \in {<<14, 0>>, <<7, 7>>, <<0, 3>>}, r2 \in {<<14, 0>>, <<7, 7>>, <<0, 3>>},
        d1 \in {Days(10), Days(100)}, d2 \in {Days(10), Days(100)} }
SimExamples == {<<0, 0, 5, 3>>, <<8, 8, 8, 0>>, <<20, 20, 20, 20>>, <<0, 0, 0, 0, 0, 0>>}
SimInputs ==
    { << [EJECUTIVO |-> Ana, Supervisor |-> SUP1, vals |-> r, dias |-> d] >> :
        r \in CountRowsUpTo(MaxMonths) \cup SimExamples, d \in DiasSamples } \cup SimPairs
MetasPairs ==
    { << [ EJECUTIVO |-> Ana, Supervisor |-> SUP1, CentroKey |-> JV,
           win |-> r1, n_mes |-> n1, dias |-> Days(100) ],
         [ EJECUTIVO |-> Beto, Supervisor |-> SUP1, CentroKey |-> JV,
           win |-> r2, n_mes |-> n2, dias |-> d2 ] >> :
        r1 \in {<<7, 7, 7>>, <<0, 0, 3>>}, r2 \in {<<7, 7, 7>>, <<0, 0, 3>>},
        n1 \in 0..1, n2 \in 0..1, d2 \in {Days(10), Days(100)} }
MetasInputs ==
    { << [ EJECUTIVO |-> Ana, Supervisor |-> SUP1, CentroKey |-> JV,
           win |-> r, n_mes |-> n, dias |-> d ] >> :
        r \in CountRowsUpTo(WindowMonths), n \in 0..1, d \in DiasSamples } \cup MetasPairs

\* section 2: the simulation table
Simulacion(piv) ==
    /\ pc = "idle"
    /\ pc' = "sim"
    /\ pivot_sim' = piv
    /\ df_sim' = table([i \in 1..Len(piv) |-> sim_row(piv[i])])
    /\ meta_total_all' = sum_meta_sim(df_sim')
    /\ UNCHANGED <<pivot_metas, df_metas, df_metas_view, df_global>>
    /\ UNCHANGED <<keyVars, calVars, progVars, sanityVars, ventasVars, nameVars, tallyVars, reportVars, flagVars, pageVars, joinVars, activosVars>>

\* section 3 and the global rollup of section 4; the run stops when no
\* executive is active
MetasTables(piv) ==
    /\ pivot_metas' = piv
    /\ df_metas' = table([i \in 1..Len(activos(piv)) |-> metas_row(activos(piv)[i])])
    /\ df_metas_view' = metas_view(df_metas')
    /\ IF df_metas' = <<>>
       THEN pc' = "stop" /\ UNCHANGED df_global
       ELSE /\ pc' = "metas"
            /\ df_global' =
                   [ ejecutivos_activos |->
                         Cardinality({df_metas_view'[i].EJECUTIVO : i \in 1..Len(df_metas_view')}),
                     meta_global |-> sum_meta_mes(df_metas_view') ]
    /\ UNCHANGED <<pivot_sim, df_sim, meta_total_all>>
\* the same with the day difference of each executive given
MetasDelMes(piv) ==
    /\ pc = "idle"
    /\ MetasTables(piv)
    /\ UNCHANGED <<keyVars, calVars, progVars, sanityVars, ventasVars, nameVars, tallyVars, reportVars, flagVars, pageVars, joinVars, activosVars>>

NextMeta ==
    \/ pc = "idle" /\ \E piv \in SimInputs : Simulacion(piv)
    \/ pc = "idle" /\ \E piv \in MetasInputs : MetasDelMes(piv)

(***************************************************************************)
(* Sanity check: quota against deliveries, per executive and rolled up     *)
(*                                                                         *)
(* Day counts are in half days; a rate (a float in the code) is a fraction.*)
(***************************************************************************)
\* month_bounds(ym_key), the key being [y, m]
month_bounds(k) == <<Date(k.y, k.m, 1), Date(k.y, k.m, DaysInMonth(k.y, k.m))>>
workable_days_equiv_month(k) ==
    workable_equiv_between(month_bounds(k)[1], month_bounds(k)[2])
\* the days elapsed counted up to today, whatever the end of the month
workable_days_equiv_elapsed_no_cutoff(k, today) ==
    IF today < month_bounds(k)[1] THEN 0
    ELSE workable_equiv_between(month_bounds(k)[1], today)
workable_days_equiv_elapsed_in_month(k, today) ==
    LET start == month_bounds(k)[1]
        end == month_bounds(k)[2]
        cutoff == IF today < end THEN today ELSE end
    IN IF today < start THEN 0 ELSE workable_equiv_between(start, cutoff)
\* the days remaining after today
workable_days_equiv_remaining_after_today(k, today) ==
    LET m_ini_tmp == month_bounds(k)[1]
        m_fin_tmp == month_bounds(k)[2]
        start_rem == IF today >= m_ini_tmp THEN today + 1 ELSE m_ini_tmp
    IN IF today <= m_fin_tmp THEN workable_equiv_between(start_rem, m_fin_tmp) ELSE 0
\* dias_hab_eq_remaining
workable_days_equiv_remaining(k, today) ==
    LET m_ini_tmp == month_bounds(k)[1]
        m_fin_tmp == month_bounds(k)[2]
        start_rem == IF today > m_ini_tmp THEN today ELSE m_ini_tmp
    IN IF today <= m_fin_tmp THEN workable_equiv_between(start_rem, m_fin_tmp) ELSE 0
\* the remaining days used for the rate as they are
remaining_for_rate_raw(rem) == rem
\* dias_hab_eq_remaining_for_rate: a Saturday alone counts as a whole day
remaining_for_rate(rem) == IF 0 < rem /\ rem < 2 THEN 2 ELSE rem
\* ratio = min(max(elapsed / total, 0.0), 1.0)
\* the share of the month that is left
ratio_of_remaining(elapsed, tot) ==
    IF tot <= 0 THEN Frac(0, 1)
    ELSE IF elapsed < 0 THEN Frac(1, 1)
    ELSE IF elapsed > tot THEN Frac(0, 1)
    ELSE Frac(tot - elapsed, tot)
ratio_of(elapsed, tot) ==
    IF tot <= 0 THEN Frac(0, 1)
    ELSE IF elapsed < 0 THEN Frac(0, 1)
    ELSE IF elapsed > tot THEN Frac(1, 1)
    ELSE Frac(elapsed, tot)
\* the expected count rounded up to the next integer
esperado_a_hoy_ceil(meta, ratio) ==
    (meta * ratio.num + ratio.den - 1) \div ratio.den
\* np.floor(meta * ratio + 1e-9): the integer part q of meta * ratio, or q + 1
\* when the fraction left over is within 1e-9 of 1, that is when
\* (den - rem) / den <= 1 / EpsInv
EpsInv == 1000000000
esperado_a_hoy(meta, ratio) ==
    LET x == meta * ratio.num
        q == x \div ratio.den
        rem == x % ratio.den
    IN IF ratio.den \div (ratio.den - rem) >= EpsInv THEN q + 1 ELSE q
\* the quota over the number of half days
ventas_diarias_necesarias_half_days(meta, tot) == Frac(meta, tot)
\* meta / dias_hab_eq_total
ventas_diarias_necesarias(meta, tot) == Frac(2 * meta, tot)
\* the rate of the gap as it is, a negative gap included
ventas_diarias_necesarias_desde_hoy_signed(gap, rem_rate) ==
    IF rem_rate > 0 THEN Frac(2 * gap, rem_rate) ELSE Frac(gap, 1)
\* np.where(rem_for_rate > 0, gap_pos / rem_for_rate, gap_pos)
ventas_diarias_necesarias_desde_hoy(gap, rem_rate) ==
    LET gap_pos == IF gap < 0 THEN 0 ELSE gap
    IN IF rem_rate > 0 THEN Frac(2 * gap_pos, rem_rate) ELSE Frac(gap_pos, 1)

\* the gap held at 0 when the deliveries exceed the quota
gap_meta_clamped(meta, tot) == IF meta - tot < 0 THEN 0 ELSE meta - tot
\* meta_mes_actual - total_ventas_hechas_mes
gap_meta(meta, tot) == meta - tot

\* one row of df_sanity_exec from a row of df_metas_view and the three
\* delivery counts merged to it
sanity_row(r, hechas, transito, tot, dtotal, drem) ==
    [ EJECUTIVO |-> r.EJECUTIVO,
      Supervisor |-> r.Supervisor,
      CentroKey |-> r.CentroKey,
      dias_activo_al_1ro |-> r.dias_activo_al_1ro,
      ventas_hechas_mes |-> hechas,
      ventas_en_transito_mes |-> transito,
      total_ventas_hechas_mes |-> tot,
      meta_mes_actual |-> r.meta_mes_actual,
      gap_meta |-> gap_meta(r.meta_mes_actual, tot),
      dias_hab_equiv_mes |-> dtotal,
      ventas_diarias_necesarias |-> ventas_diarias_necesarias(r.meta_mes_actual, dtotal),
      dias_hab_equiv_restantes |-> drem,
      ventas_diarias_necesarias_desde_hoy |->
          ventas_diarias_necesarias_desde_hoy(
              gap_meta(r.meta_mes_actual, tot), remaining_for_rate(drem)) ]

\* merge(how="left") of one left row: a row per matching row of prog_split in
\* its order, or one row of missing counts, which fillna(0) turns to 0
merge_left_row(r, split, dtotal, drem) ==
    LET ej_norm == normalize_name(PyStr(str(r.EJECUTIVO)))
        hits == SelectSeq(split, LAMBDA g : g.VEN_NORM = ej_norm)
    IN IF hits = <<>>
       THEN << sanity_row(r, 0, 0, 0, dtotal, drem) >>
       ELSE table([ j \in 1..Len(hits) |->
                sanity_row(r, hits[j].hechas_mes, hits[j].transito_mes, hits[j].total_mes,
                           dtotal, drem) ])
RECURSIVE merge_left(_, _, _, _)
merge_left(view, split, dtotal, drem) ==
    IF view = <<>> THEN <<>>
    ELSE merge_left_row(Head(view), split, dtotal, drem)
         \o merge_left(Tail(view), split, dtotal, drem)
\* the except branch: the three counts are NaN in every row
merge_failed(view, dtotal, drem) ==
    table([ i \in 1..Len(view) |-> sanity_row(view[i], 0, 0, 0, dtotal, drem) ])

sanity_exec_sorted(df) ==
    LET t == table(df) IN
    sort_values_desc(t,
        [ i \in 1..Len(t) |->
            << Frac(t[i].gap_meta, 1), t[i].ventas_diarias_necesarias_desde_hoy,
               t[i].ventas_diarias_necesarias >> ])

\* .sum() of a column and .nunique() of EJECUTIVO over the rows of a group
RECURSIVE sum_col(_, _)
sum_col(t, col) == IF t = <<>> THEN 0 ELSE Head(t)[col] + sum_col(Tail(t), col)
nunique_ejecutivo(t) == Cardinality({t[i].EJECUTIVO : i \in 1..Len(t)})

\* the row of a team with the expected count taken as the sum of the
\* expected counts of its executives
RECURSIVE sum_esperado(_, _)
sum_esperado(g, ratio) ==
    IF g = <<>> THEN 0
    ELSE esperado_a_hoy(Head(g).meta_mes_actual, ratio) + sum_esperado(Tail(g), ratio)
team_row_sum_esperado(key, g, dtotal, ratio, drem) ==
    LET tot == sum_col(g, "total_ventas_hechas_mes")
        meta == sum_col(g, "meta_mes_actual")
        gap == sum_col(g, "gap_meta")
    IN [ Supervisor |-> key,
         ejecutivos |-> nunique_ejecutivo(g),
         ventas_hechas |-> sum_col(g, "ventas_hechas_mes"),
         ventas_en_transito |-> sum_col(g, "ventas_en_transito_mes"),
         total_ventas_hechas |-> tot,
         meta_team |-> meta,
         gap_team |-> gap,
         dias_hab_equiv_mes |-> dtotal,
         ventas_diarias_necesarias |-> ventas_diarias_necesarias(meta, dtotal),
         esperado_a_hoy |-> sum_esperado(g, ratio),
         al_corriente |-> tot >= sum_esperado(g, ratio),
         dias_hab_equiv_restantes |-> drem,
         ventas_diarias_necesarias_desde_hoy |->
             ventas_diarias_necesarias_desde_hoy(gap, remaining_for_rate(drem)) ]
\* one row of df_sanity_team: the sums over the rows g of a supervisor
team_row(key, g, dtotal, ratio, drem) ==
    LET hechas == sum_col(g, "ventas_hechas_mes")
        transito == sum_col(g, "ventas_en_transito_mes")
        tot == sum_col(g, "total_ventas_hechas_mes")
        meta == sum_col(g, "meta_mes_actual")
        gap == sum_col(g, "gap_meta")
    IN [ Supervisor |-> key,
         ejecutivos |-> nunique_ejecutivo(g),
         ventas_hechas |-> hechas,
         ventas_en_transito |-> transito,
         total_ventas_hechas |-> tot,
         meta_team |-> meta,
         gap_team |-> gap,
         dias_hab_equiv_mes |-> dtotal,
         ventas_diarias_necesarias |-> ventas_diarias_necesarias(meta, dtotal),
         esperado_a_hoy |-> esperado_a_hoy(meta, ratio),
         al_corriente |-> tot >= esperado_a_hoy(meta, ratio),
         dias_hab_equiv_restantes |-> drem,
         ventas_diarias_necesarias_desde_hoy |->
             ventas_diarias_necesarias_desde_hoy(gap, remaining_for_rate(drem)) ]
sanity_team(t, dtotal, ratio, drem) ==
    LET keys == sorted({t[i].Supervisor : i \in 1..Len(t)})
        rows == table([ k \in 1..Len(keys) |->
                    team_row(keys[k], SelectSeq(t, LAMBDA r : r.Supervisor = keys[k]),
                             dtotal, ratio, drem) ])
    IN sort_values_desc(rows,
           [ i \in 1..Len(rows) |->
               << Frac(rows[i].gap_team, 1), rows[i].ventas_diarias_necesarias_desde_hoy,
                  rows[i].ventas_diarias_necesarias >> ])

\* the site row with the expected count added up over its executives
centro_row_sum_esperado(key, g, dtotal, ratio, drem) ==
    LET tot == sum_col(g, "total_ventas_hechas_mes")
        meta == sum_col(g, "meta_mes_actual")
        gap == sum_col(g, "gap_meta")
    IN [ CentroKey |-> key,
         ejecutivos |-> nunique_ejecutivo(g),
         ventas_hechas |-> sum_col(g, "ventas_hechas_mes"),
         ventas_en_transito |-> sum_col(g, "ventas_en_transito_mes"),
         total_ventas_hechas |-> tot,
         meta_centro |-> meta,
         gap_centro |-> gap,
         dias_hab_equiv_mes |-> dtotal,
         ventas_diarias_necesarias |-> ventas_diarias_necesarias(meta, dtotal),
         esperado_a_hoy |-> sum_esperado(g, ratio),
         al_corriente |-> tot >= sum_esperado(g, ratio),
         dias_hab_equiv_restantes |-> drem,
         ventas_diarias_necesarias_desde_hoy |->
             ventas_diarias_necesarias_desde_hoy(gap, remaining_for_rate(drem)) ]
centro_row(key, g, dtotal, ratio, drem) ==
    LET hechas == sum_col(g, "ventas_hechas_mes")
        transito == sum_col(g, "ventas_en_transito_mes")
        tot == sum_col(g, "total_ventas_hechas_mes")
        meta == sum_col(g, "meta_mes_actual")
        gap == sum_col(g, "gap_meta")
    IN [ CentroKey |-> key,
         ejecutivos |-> nunique_ejecutivo(g),
         ventas_hechas |-> hechas,
         ventas_en_transito |-> transito,
         total_ventas_hechas |-> tot,
         meta_centro |-> meta,
         gap_centro |-> gap,
         dias_hab_equiv_mes |-> dtotal,
         ventas_diarias_necesarias |-> ventas_diarias_necesarias(meta, dtotal),
         esperado_a_hoy |-> esperado_a_hoy(meta, ratio),
         al_corriente |-> tot >= esperado_a_hoy(meta, ratio),
         dias_hab_equiv_restantes |-> drem,
         ventas_diarias_necesarias_desde_hoy |->
             ventas_diarias_necesarias_desde_hoy(gap, remaining_for_rate(drem)) ]
sanity_centro(t, dtotal, ratio, drem) ==
    LET keys == sorted({t[i].CentroKey : i \in 1..Len(t)})
        rows == table([ k \in 1..Len(keys) |->
                    centro_row(keys[k], SelectSeq(t, LAMBDA r : r.CentroKey = keys[k]),
                               dtotal, ratio, drem) ])
    IN sort_values_desc(rows,
           [ i \in 1..Len(rows) |->
               << Frac(rows[i].gap_centro, 1), rows[i].ventas_diarias_necesarias_desde_hoy,
                  rows[i].ventas_diarias_necesarias >> ])

\* the one row of df_sanity_global
sanity_global(k, t, dtotal, ratio, drem) ==
    LET hechas == sum_col(t, "ventas_hechas_mes")
        transito == sum_col(t, "ventas_en_transito_mes")
        tot == sum_col(t, "total_ventas_hechas_mes")
        meta == sum_col(t, "meta_mes_actual")
        gap == sum_col(t, "gap_meta")
    IN << [ mes |-> k,
            dias_hab_equiv_mes |-> dtotal,
            ejecutivos_activos |-> nunique_ejecutivo(t),
            ventas_hechas |-> hechas,
            ventas_en_transito |-> transito,
            total_ventas_hechas |-> tot,
            meta_global |-> meta,
            gap_global |-> gap,
            ventas_diarias_necesarias |-> ventas_diarias_necesarias(meta, dtotal),
            esperado_a_hoy |-> esperado_a_hoy(meta, ratio),
            al_corriente |-> tot >= esperado_a_hoy(meta, ratio),
            dias_hab_equiv_restantes |-> drem,
            ventas_diarias_necesarias_desde_hoy |->
                ventas_diarias_necesarias_desde_hoy(gap, remaining_for_rate(drem)) ] >>

\* Inputs of SpecSanity.  Quota table: Ana (quota 6 or 8) alone or with Beto
\* (quota 7 when active), in the same team and site or not.  Deliveries: up to
\* two kinds of row for the vendors Ana, ANA and Beto, each standing for 1 or
\* BigBatch rows, or the read failing.  Target month and today: February and
\* April 2022 (April ends on a Saturday), today before, in and after the month.
BigBatch == 9
SanityMetasInputs ==
    { << [ EJECUTIVO |-> Ana, Supervisor |-> SUP1, CentroKey |-> JV,
           win |-> <<7, 7, 7>>, n_mes |-> 1, dias |-> d ] >> : d \in {Days(10), Days(100)} }
    \cup
    { << [ EJECUTIVO |-> Ana, Supervisor |-> SUP1, CentroKey |-> JV,
           win |-> <<7, 7, 7>>, n_mes |-> 1, dias |-> d ],
         [ EJECUTIVO |-> Beto, Supervisor |-> sup, CentroKey |-> c,
           win |-> <<0, 0, 3>>, n_mes |-> n, dias |-> Days(100) ] >> :
        d \in {Days(10), Days(100)}, sup \in {SUP1, BAJA}, c \in {JV, CC2}, n \in 0..1 }
SanityKinds ==
    { [ESTATUS |-> PyStr(<<"E", "n", "t", "r", "e", "g", "a", "d", "o">>), VENTA |-> PyStr(<<"7">>)],
      [ESTATUS |-> PyStr(<<"S", "o", "l", "i", "c", "i", "t", "a", "d", "o">>), VENTA |-> PyNone],
      [ESTATUS |-> PyStr(<<"C", "a", "n", "c", " ", "E", "r", "r", "o", "r">>), VENTA |-> PyNone] }
SanityRecords ==
    { [VENDEDOR |-> v, ESTATUS |-> k.ESTATUS, VENTA |-> k.VENTA, n |-> n] :
        v \in {Ana, PyStr(<<"A", "N", "A">>), Beto}, k \in SanityKinds, n \in {1, BigBatch} }
SanityProgInputs ==
    {<<>>} \cup {<<r>> : r \in SanityRecords}
           \cup {<<r1, r2>> : r1 \in SanityRecords, r2 \in SanityRecords}
SanityMonths == {[y |-> 2022, m |-> 2], [y |-> 2022, m |-> 4]}
SanityTodays(k) ==
    { month_bounds(k)[1] - 10, month_bounds(k)[1], month_bounds(k)[1] + 9,
      month_bounds(k)[2], month_bounds(k)[2] + 5 }

\* the day counts of the target month and the split of the deliveries read,
\* tabulated once over the inputs of the model
AllMonths == {[y |-> yy, m |-> mm] : yy \in Years, mm \in 1..12}
\* the months of 2022 and the February of a leap year
MonthSample == {[y |-> 2022, m |-> mm] : mm \in 1..12} \cup {[y |-> 2024, m |-> 2]}
MonthTodays(k) ==
    SanityTodays(k) \cup
    { month_bounds(k)[1] - 1, month_bounds(k)[1] + 1,
      month_bounds(k)[2] - 1, month_bounds(k)[2] + 1 }
SanityDaysTable ==
    [ k \in MonthSample |->
        [ today \in MonthTodays(k) |->
            [ total |-> workable_days_equiv_month(k),
              elapsed |-> workable_days_equiv_elapsed_in_month(k, today),
              remaining |-> workable_days_equiv_remaining(k, today) ] ] ]
ProgSplitTable == [df \in SanityProgInputs |-> load_programadas_split_by_exec(df)]

\* tmp_for_style: the expected count and the on-track flag per executive,
\* recomputed from the table shown to colour the gap
style_rows(t, ratio) ==
    table([ i \in 1..Len(t) |->
        [ EJECUTIVO |-> t[i].EJECUTIVO,
          total_ventas_hechas_mes |-> t[i].total_ventas_hechas_mes,
          meta_mes_actual |-> t[i].meta_mes_actual,
          esperado_a_hoy |-> esperado_a_hoy(t[i].meta_mes_actual, ratio),
          al_corriente |-> t[i].total_ventas_hechas_mes
                               >= esperado_a_hoy(t[i].meta_mes_actual, ratio) ] ])

\* style_corriente = dict(zip(EJECUTIVO, al_corriente)): the flag of the last
\* row of the executive, and True for an executive without row
style_corriente_get(tmp, ej) ==
    IF \E i \in 1..Len(tmp) : tmp[i].EJECUTIVO = ej
    THEN LET i == CHOOSE i \in 1..Len(tmp) :
                      tmp[i].EJECUTIVO = ej /\ \A j \in (i + 1)..Len(tmp) : tmp[j].EJECUTIVO # ej
         IN tmp[i].al_corriente
    ELSE TRUE
\* highlight_gap_dynamic: whether the gap cell of the row is painted red
highlight_gap_dynamic(row, tmp) ==
    row.gap_meta > 0 /\ ~style_corriente_get(tmp, row.EJECUTIVO)

\* section 5 after the merge: the table per executive and its rollups
SanityTables(k, exec_rows, dtotal, delapsed, drem) ==
    LET ratio == ratio_of(delapsed, dtotal)
        t == sanity_exec_sorted(exec_rows)
    IN /\ df_sanity_exec' = t
       /\ tmp_for_style' = style_rows(t, ratio)
       /\ df_sanity_team' = sanity_team(t, dtotal, ratio, drem)
       /\ df_sanity_centro' = sanity_centro(t, dtotal, ratio, drem)
       /\ df_sanity_global' = sanity_global(k, t, dtotal, ratio, drem)

\* section 5, the deliveries read
SanityCheck(k, today, df) ==
    LET dtotal == SanityDaysTable[k][today].total
        delapsed == SanityDaysTable[k][today].elapsed
        drem == SanityDaysTable[k][today].remaining
        split == ProgSplitTable[df]
    IN /\ pc = "metas"
       /\ meta_month_key' = k
       /\ today_d' = today
       /\ dias_hab_eq_total' = dtotal
       /\ dias_hab_eq_elapsed' = delapsed
       /\ dias_hab_eq_remaining' = drem
       /\ IF dtotal <= 0
          THEN /\ pc' = "no_days"
               /\ UNCHANGED <<progVars, df_sanity_exec, tmp_for_style, df_sanity_team,
                              df_sanity_centro, df_sanity_global>>
          ELSE /\ pc' = "sanity"
               /\ df_prog' = df
               /\ prog_split' = split
               /\ SanityTables(k, merge_left(df_metas_view, split, dtotal, drem),
                               dtotal, delapsed, drem)
       /\ UNCHANGED <<keyVars, calVars, metaVars, ventasVars, nameVars, tallyVars, reportVars, flagVars, pageVars, joinVars, activosVars>>

\* section 5, the read or the merge raising
SanityCheckExcept(k, today) ==
    LET dtotal == SanityDaysTable[k][today].total
        delapsed == SanityDaysTable[k][today].elapsed
        drem == SanityDaysTable[k][today].remaining
    IN /\ pc = "metas"
       /\ meta_month_key' = k
       /\ today_d' = today
       /\ dias_hab_eq_total' = dtotal
       /\ dias_hab_eq_elapsed' = delapsed
       /\ dias_hab_eq_remaining' = drem
       /\ IF dtotal <= 0
          THEN /\ pc' = "no_days"
               /\ UNCHANGED <<df_sanity_exec, tmp_for_style, df_sanity_team,
                              df_sanity_centro, df_sanity_global>>
          ELSE /\ pc' = "sanity"
               /\ SanityTables(k, merge_failed(df_metas_view, dtotal, drem),
                               dtotal, delapsed, drem)
       /\ UNCHANGED progVars
       /\ UNCHANGED <<keyVars, calVars, metaVars, ventasVars, nameVars, tallyVars, reportVars, flagVars, pageVars, joinVars, activosVars>>

NextSanity ==
    \/ pc = "idle" /\ \E piv \in SanityMetasInputs : MetasDelMes(piv)
    \/ pc = "metas" /\ \E k \in SanityMonths : \E today \in SanityTodays(k) :
           \E df \in SanityProgInputs : SanityCheck(k, today, df)
    \/ pc = "metas" /\ \E k \in SanityMonths : \E today \in SanityTodays(k) :
           SanityCheckExcept(k, today)

\* The hire date of an executive and the days to the first of the month.
\* A timestamp is its number of half days (midnight or noon of a date).
Ts(day, h) == [kind |-> "ts", t |-> 2 * day + h]
\* Series.dt.normalize(): midnight of the same date
normalize_ts(x) == IF x.kind = "ts" THEN [kind |-> "ts", t |-> x.t - (x.t % 2)] ELSE x
\* groupby(...).min() of timestamps
min_ts(S) == CHOOSE x \in S : \A y \in S : x.t <= y.t
\* emp_ing: EJ_NORM of a personnel row
emp_norm(e) == normalize_name(PyStr(strip(str(e.Nombre))))
ingreso_map_norm_of(emp) ==
    LET rows == { e \in {emp[i] : i \in 1..Len(emp)} :
                    emp_norm(e) # <<>> /\ e.Fecha_Ingreso.kind = "ts" }
    IN [ nm \in {emp_norm(e) : e \in rows} |->
           min_ts({e.Fecha_Ingreso : e \in {x \in rows : emp_norm(x) = nm}}) ]
first_dt_ventas_norm_of(ven) ==
    LET rows == {ven[i] : i \in 1..Len(ven)}
        norm(v) == normalize_name(PyStr(str(v.EJECUTIVO)))
    IN [ nm \in {norm(v) : v \in rows} |->
           min_ts({v.T_DT : v \in {x \in rows : norm(x) = nm}}) ]
\* dict.get
dict_get(d, key) == IF key \in DOMAIN d THEN d[key] ELSE PyNone
\* the hire date only: nothing for a name that personnel does not have
get_ingreso_dt_no_fallback(ej_norm, ing, first) == dict_get(ing, ej_norm)
get_ingreso_dt_for_norm(ej_norm, ing, first) ==
    LET v == dict_get(ing, ej_norm)
    IN IF v.kind \in {"NaT", "none"} THEN dict_get(first, ej_norm) ELSE v
\* (ref_day - fd.dt.normalize()).dt.days, fd = pd.to_datetime(..., errors="coerce")
tenure_days(ejecutivo, ing, first, ref) ==
    LET v == get_ingreso_dt_for_norm(normalize_name(PyStr(str(ejecutivo))), ing, first)
        fd == IF v.kind = "ts" THEN v ELSE NaT
    IN IF fd.kind = "ts" THEN Days((2 * ref - normalize_ts(fd).t) \div 2) ELSE NaT

\* Inputs of SpecTenure: personnel of up to two rows (Ana under two
\* spellings, Beto; a hire date missing, long before, 41 days before the
\* first of February 2022 at noon, or after it), the sales of Ana on one or
\* two dates and one sale of Beto, and the pivot of Ana alone or with Beto.
HireDates ==
    { NaT, Ts(Date(2021, 11, 1), 0), Ts(Date(2021, 12, 22), 1), Ts(Date(2022, 3, 15), 0) }
EmpRows ==
    { [Nombre |-> nm, Fecha_Ingreso |-> f] :
        nm \in {Ana, PyStr(<<" ", "A", "N", "A">>), Beto}, f \in HireDates }
EmpInputs == {<<>>} \cup {<<e>> : e \in EmpRows} \cup {<<e1, e2>> : e1 \in EmpRows, e2 \in EmpRows}
SaleDates == { Ts(Date(2021, 12, 22), 1), Ts(Date(2022, 1, 10), 0), Ts(Date(2022, 2, 3), 1) }
VentasInputs ==
    { << [EJECUTIVO |-> Ana, T_DT |-> t1], [EJECUTIVO |-> Beto, T_DT |-> Ts(Date(2022, 1, 10), 1)] >> :
        t1 \in SaleDates }
    \cup
    { << [EJECUTIVO |-> Ana, T_DT |-> t1], [EJECUTIVO |-> Beto, T_DT |-> Ts(Date(2022, 1, 10), 1)],
         [EJECUTIVO |-> Ana, T_DT |-> t2] >> : t1 \in SaleDates, t2 \in SaleDates }
TenurePivots ==
    { << [ EJECUTIVO |-> Ana, Supervisor |-> SUP1, CentroKey |-> JV,
           win |-> <<7, 7, 7>>, n_mes |-> 1 ] >>,
      << [ EJECUTIVO |-> Ana, Supervisor |-> SUP1, CentroKey |-> JV,
           win |-> <<7, 7, 7>>, n_mes |-> 1 ],
         [ EJECUTIVO |-> Beto, Supervisor |-> SUP1, CentroKey |-> JV,
           win |-> <<0, 0, 3>>, n_mes |-> 1 ] >> }

\* the maps of hire dates and first sales, then section 3 with the day
\* difference of each executive taken from them
MetasDelMesIngreso(k, emp, ven, piv) ==
    LET ing == ingreso_map_norm_of(emp)
        first == first_dt_ventas_norm_of(ven)
        ref == month_bounds(k)[1]
    IN /\ pc = "idle"
       /\ empleados' = emp
       /\ ventas' = ven
       /\ ingreso_map_norm' = ing
       /\ first_dt_ventas_norm' = first
       /\ ref_day' = ref
       /\ meta_month_key' = k
       /\ MetasTables(table([ i \in 1..Len(piv) |->
              [ EJECUTIVO |-> piv[i].EJECUTIVO, Supervisor |-> piv[i].Supervisor,
                CentroKey |-> piv[i].CentroKey, win |-> piv[i].win, n_mes |-> piv[i].n_mes,
                dias |-> tenure_days(piv[i].EJECUTIVO, ing, first, ref) ] ]))
       /\ UNCHANGED <<today_d, dias_hab_eq_total, dias_hab_eq_elapsed, dias_hab_eq_remaining,
                      df_sanity_exec, tmp_for_style, df_sanity_team, df_sanity_centro,
                      df_sanity_global>>
       /\ UNCHANGED <<keyVars, calVars, progVars, nameVars, tallyVars, reportVars, flagVars, pageVars, joinVars, activosVars>>

NextTenure ==
    pc = "idle" /\ \E k \in SanityMonths : \E emp \in EmpInputs : \E ven \in VentasInputs :
        \E piv \in TenurePivots : MetasDelMesIngreso(k, emp, ven, piv)

\* line 1254 alone: the total of a month
WorkableDaysEquivMonth(k) ==
    /\ pc = "idle"
    /\ pc' = "month"
    /\ meta_month_key' = k
    /\ dias_hab_eq_total' = workable_days_equiv_month(k)
    /\ UNCHANGED <<today_d, dias_hab_eq_elapsed, dias_hab_eq_remaining, df_sanity_exec,
                   tmp_for_style, df_sanity_team, df_sanity_centro, df_sanity_global>>
    /\ UNCHANGED <<keyVars, calVars, progVars, metaVars, ventasVars, nameVars, tallyVars, reportVars, flagVars, pageVars, joinVars, activosVars>>

\* SpecMonth: the total of every month of the years of the model, and
\* section 5 for the months of MonthSample, today around the two ends of the
\* month, with the quota table of Ana alone or of Ana and Beto and the
\* deliveries none or one.
MonthMetasInputs ==
    { piv \in SanityMetasInputs :
        \A i \in 1..Len(piv) :
            piv[i].dias = Days(100) /\ piv[i].n_mes = 1 /\ piv[i].Supervisor = SUP1
                /\ piv[i].CentroKey = JV }
MonthProgInputs ==
    { <<>>, << [ VENDEDOR |-> Ana, ESTATUS |-> PyStr(<<"E", "n", "t", "r", "e", "g", "a", "d", "o">>),
                 VENTA |-> PyStr(<<"7">>), n |-> 1 ] >> }
NextMonth ==
    \/ pc = "idle" /\ \E piv \in MonthMetasInputs : MetasDelMes(piv)
    \/ pc = "idle" /\ \E k \in AllMonths : WorkableDaysEquivMonth(k)
    \/ pc = "metas" /\ \E k \in MonthSample : \E today \in MonthTodays(k) :
           \E df \in MonthProgInputs : SanityCheck(k, today, df)

\* The monthly tally of the sales per executive.  A sale is a record
\* [EJECUTIVO, T_MonthKey]; a month key "YYYY-MM" is the record [y, m], and
\* the order of the keys as text is the order of the months.
month_lt(a, b) == a.y < b.y \/ (a.y = b.y /\ a.m < b.m)
RECURSIVE sorted_months(_)
sorted_months(S) ==
    IF S = {} THEN <<>>
    ELSE LET mn == CHOOSE a \in S : \A b \in S \ {a} : month_lt(a, b)
         IN <<mn>> \o sorted_months(S \ {mn})
\* sorted(df[col].dropna().unique().tolist())
unique_months(df) == sorted_months({df[i].T_MonthKey : i \in 1..Len(df)})
unique_execs(df) ==
    sorted({df[i].EJECUTIVO.s : i \in {j \in 1..Len(df) : df[j].EJECUTIVO # PyNone}})
\* the size of a group counted over the executive's sales of every month
group_size_any_month(df, e, k) ==
    Cardinality({i \in 1..Len(df) : df[i].EJECUTIVO = PyStr(e)})
\* groupby(["EJECUTIVO", "T_MonthKey"]).size() of one group
group_size(df, e, k) ==
    Cardinality({i \in 1..Len(df) : df[i].EJECUTIVO = PyStr(e) /\ df[i].T_MonthKey = k})
\* df_month_exec: a row per pair that has a sale
month_exec(df) ==
    LET pairs == { <<df[i].EJECUTIVO.s, df[i].T_MonthKey>> :
                      i \in {j \in 1..Len(df) : df[j].EJECUTIVO # PyNone} }
    IN [ p \in pairs |-> group_size(df, p[1], p[2]) ]
\* set_index(...).reindex(full_idx, fill_value=0)
reindex_full(me, execs, months) ==
    [ p \in {<<execs[i], months[j]>> : i \in 1..Len(execs), j \in 1..Len(months)} |->
        IF p \in DOMAIN me THEN me[p] ELSE 0 ]
\* pivot_table(index="EJECUTIVO", columns="T_MonthKey", aggfunc="sum",
\* fill_value=0).reset_index(), and the loop that adds a missing month as 0
pivot_table(full, execs, months) ==
    table([ i \in 1..Len(execs) |->
        [ EJECUTIVO |-> PyStr(execs[i]),
          vals |-> table([ j \in 1..Len(months) |->
                     IF <<execs[i], months[j]>> \in DOMAIN full
                     THEN full[<<execs[i], months[j]>>] ELSE 0 ]) ] ])
tally(df, months) ==
    pivot_table(reindex_full(month_exec(df), unique_execs(df), months),
                unique_execs(df), months)

\* meta_window_keys: the options before the target, three at most, or else
\* the options up to the target
slice(seq, a, b) == SubSeq(seq, a + 1, IF b > Len(seq) THEN Len(seq) ELSE b)
index_of(seq, x) == (CHOOSE i \in 1..Len(seq) : seq[i] = x) - 1
max0(a) == IF a > 0 THEN a ELSE 0
meta_idx_of(options, key) ==
    IF \E i \in 1..Len(options) : options[i] = key
    THEN index_of(options, key) ELSE Len(options) - 1
\* the window without the fallback
window_keys_no_fallback(options, key) ==
    slice(options, max0(meta_idx_of(options, key) - WindowMonths), meta_idx_of(options, key))
window_keys(options, key) ==
    LET meta_idx == meta_idx_of(options, key)
        w == slice(options, max0(meta_idx - WindowMonths), meta_idx)
    IN IF Len(w) = 0 THEN slice(options, max0(meta_idx - 2), meta_idx + 1) ELSE w

\* Inputs of SpecTally: up to MaxSales sales, of Ana in four months, of Beto
\* in the last two and one without executive, after a sale of Ana in each
\* of the first two months or after none; the sidebar filter on Ana or none.
MaxSales == 3
SaleMonths ==
    { [y |-> 2025, m |-> 10], [y |-> 2025, m |-> 11], [y |-> 2025, m |-> 12],
      [y |-> 2026, m |-> 1] }
SaleRecords ==
    { [EJECUTIVO |-> Ana, T_MonthKey |-> k] : k \in SaleMonths }
    \cup { [EJECUTIVO |-> Beto, T_MonthKey |-> k] :
              k \in {[y |-> 2025, m |-> 12], [y |-> 2026, m |-> 1]} }
    \cup { [EJECUTIVO |-> PyNone, T_MonthKey |-> [y |-> 2025, m |-> 12]] }
SalesHistory ==
    << [EJECUTIVO |-> Ana, T_MonthKey |-> [y |-> 2025, m |-> 10]],
       [EJECUTIVO |-> Ana, T_MonthKey |-> [y |-> 2025, m |-> 11]] >>
SalesInputs ==
    { h \o x : h \in {<<>>, SalesHistory}, x \in UNION { [1..n -> SaleRecords] : n \in 1..MaxSales } }
EjSelections == { {}, {Ana} }

\* lines 736-781: the tally of the simulation
SimPivot(df) ==
    /\ pc = "idle"
    /\ pc' = "tally_sim"
    /\ df_export_base' = df
    /\ months_selected' = unique_months(df)
    /\ tally_sim' = tally(df, unique_months(df))
    /\ UNCHANGED <<ventas_flt, meta_month_options, meta_window_keys, tally_metas>>
    /\ UNCHANGED <<keyVars, calVars, progVars, metaVars, sanityVars, ventasVars, nameVars,
                   reportVars, flagVars, pageVars, joinVars, activosVars>>

\* lines 910-994: the month chosen, its window and the tally of the window;
\* the run stops when the window has no sale
MetasPivot(ven, ej_selected, key) ==
    LET flt == IF ej_selected = {} THEN ven
               ELSE SelectSeq(ven, LAMBDA r : r.EJECUTIVO \in ej_selected)
        options == unique_months(ven)
        w == window_keys(options, key)
        df_meta_base == SelectSeq(flt, LAMBDA r : \E j \in 1..Len(w) : w[j] = r.T_MonthKey)
    IN /\ pc = "idle"
       /\ ventas' = ven
       /\ ventas_flt' = flt
       /\ meta_month_options' = options
       /\ meta_month_key' = key
       /\ meta_window_keys' = w
       /\ IF df_meta_base = <<>>
          THEN pc' = "stop" /\ UNCHANGED tally_metas
          ELSE pc' = "tally_metas" /\ tally_metas' = tally(df_meta_base, w)
       /\ UNCHANGED <<df_export_base, months_selected, tally_sim>>
       /\ UNCHANGED <<empleados, ingreso_map_norm, first_dt_ventas_norm, ref_day>>
       /\ UNCHANGED <<today_d, dias_hab_eq_total, dias_hab_eq_elapsed, dias_hab_eq_remaining,
                      df_sanity_exec, tmp_for_style, df_sanity_team, df_sanity_centro,
                      df_sanity_global>>
       /\ UNCHANGED <<keyVars, calVars, progVars, metaVars, nameVars, reportVars, flagVars, pageVars, joinVars, activosVars>>

NextTally ==
    \/ pc = "idle" /\ \E df \in SalesInputs : SimPivot(df)
    \/ pc = "idle" /\ \E ven \in SalesInputs : \E sel \in EjSelections :
           \E key \in {ven[i].T_MonthKey : i \in 1..Len(ven)} : MetasPivot(ven, sel, key)

(***************************************************************************)
(* The statuses the queries select and the statuses in transit             *)
(***************************************************************************)
\* build_programadas_query: [Estatus] IN (...), a comparison that ignores
\* case and trailing blanks.
ProgramadasList ==
    { <<"E", "n", " ", "e", "n", "t", "r", "e", "g", "a">>,
      <<"C", "a", "n", "c", " ", "E", "r", "r", "o", "r">>,
      <<"E", "n", "t", "r", "e", "g", "a", "d", "o">>,
      <<"E", "n", " ", "p", "r", "e", "p", "a", "r", "a", "c", "i", "o", "n">>,
      <<"B", "a", "c", "k", " ", "O", "f", "f", "i", "c", "e">>,
      <<"S", "o", "l", "i", "c", "i", "t", "a", "d", "o">> }
sql_fold(s) == upper(rstrip(s))
sql_in(v, list) == v.kind = "str" /\ \E l \in list : sql_fold(v.s) = sql_fold(l)
build_programadas_query(report) ==
    SelectSeq(report, LAMBDA r : sql_in(r.ESTATUS, ProgramadasList))

\* load_ventas: est_norm.str.contains(r"\bKEY\b")
NonWord == Whitespace \cup {".", "ACUTE", "COMBINING_ACUTE"}
contains_word(t, w) ==
    \E i \in 1..(Len(t) - Len(w) + 1) :
        /\ SubSeq(t, i, i + Len(w) - 1) = w
        /\ (i = 1 \/ t[i - 1] \in NonWord)
        /\ (i + Len(w) - 1 = Len(t) \/ t[i + Len(w)] \in NonWord)
TRANSITO == <<"T", "R", "A", "N", "S", "I", "T", "O">>
EN_TRANSITO == <<"E", "N", " ">> \o TRANSITO
TRANSITO_KEYS == {EN_ENTREGA, EN_PREPARACION, BACK_OFFICE, SOLICITADO, EN_TRANSITO}
is_transito_by_status(est) ==
    \/ est \in TRANSITO_KEYS
    \/ contains_word(est, TRANSITO)
    \/ contains_word(est, EN_ENTREGA)
    \/ contains_word(est, EN_PREPARACION)
    \/ contains_word(est, BACK_OFFICE)
    \/ contains_word(est, SOLICITADO)

\* Inputs of SpecReport: reports of up to MaxReport rows of two vendors, with
\* a sale or without, whose status is one of the list or one of the list
\* followed by a qualifier.
MaxReport == 2
ReportStatuses ==
    { <<"E", "n", " ", "e", "n", "t", "r", "e", "g", "a">>,
      <<"E", "n", " ", "e", "n", "t", "r", "e", "g", "a", " ", "2">>,
      <<"S", "o", "l", "i", "c", "i", "t", "a", "d", "o", " ", "h", "o", "y">>,
      <<"E", "n", "t", "r", "e", "g", "a", "d", "o">>,
      <<"C", "a", "n", "c", " ", "E", "r", "r", "o", "r">> }
ReportRecords ==
    [ VENDEDOR : {Ana, Beto}, ESTATUS : {PyStr(e) : e \in ReportStatuses},
      VENTA : {PyStr(<<"7">>), PyNone}, n : {1} ]
ReportInputs == UNION {[1..k -> ReportRecords] : k \in 1..MaxReport}

\* lines 343-352 and 371-412: the query, then the split of the rows it returns
ReadProgramadas(report) ==
    /\ pc = "idle"
    /\ pc' = "report"
    /\ reporte' = report
    /\ LET df == build_programadas_query(report)
       IN /\ df_prog' = df
          /\ prog_split' = load_programadas_split_by_exec(df)
    /\ UNCHANGED <<keyVars, calVars, metaVars, sanityVars, ventasVars, nameVars, tallyVars,
                   flagVars, pageVars, joinVars, activosVars>>

NextReport ==
    pc = "idle" /\ \E report \in ReportInputs : ReadProgramadas(report)

(***************************************************************************)
(* load_transito_flags                                                     *)
(***************************************************************************)
\* the normalised FOLIO and is_transito of every row read
folio_flags(df) ==
    table([ i \in 1..Len(df) |->
              [ FOLIO |-> normalize_folio_key(df[i].FOLIO),
                IS_TRANSITO |-> is_transito(df[i]) ] ])
\* df[df["FOLIO"].notna() & (df["FOLIO"] != "")]
drop_empty_folio(rows) == SelectSeq(rows, LAMBDA r : r.FOLIO # <<>>)
\* the flag of the last row of the key
flag_last(rows, k) ==
    LET i == CHOOSE i \in 1..Len(rows) :
                 rows[i].FOLIO = k /\ \A j \in (i + 1)..Len(rows) : rows[j].FOLIO # k
    IN rows[i].IS_TRANSITO
\* groupby("FOLIO")["IS_TRANSITO"].max() of the 0/1 column, as a bool
flag_max(rows, k) == \E i \in 1..Len(rows) : rows[i].FOLIO = k /\ rows[i].IS_TRANSITO
load_transito_flags(df) ==
    IF df = <<>> THEN <<>>
    ELSE LET rows == drop_empty_folio(folio_flags(df))
             keys == sorted({rows[i].FOLIO : i \in 1..Len(rows)})
         IN table([k \in 1..Len(keys) |->
                [FOLIO |-> keys[k], IS_TRANSITO |-> flag_max(rows, keys[k])]])

\* Inputs of SpecFlags: up to MaxFlagRows rows whose FOLIO is missing, a
\* number in two spellings or another number, in transit or not.
MaxFlagRows == 2
FlagFolios == {PyNone, PyStr(<<"7">>), PyStr(<<"7", ".", "0">>), PyStr(<<"8">>)}
FlagStatuses ==
    { <<"E", "n", " ", "e", "n", "t", "r", "e", "g", "a">>,
      <<"E", "n", "t", "r", "e", "g", "a", "d", "o">>,
      <<"E", "n", " ", "e", "n", "t", "r", "e", "g", "a", " ", "2">> }
FlagRecords ==
    [ FOLIO : FlagFolios, ESTATUS : {PyStr(s) : s \in FlagStatuses},
      VENTA : {PyStr(<<"7">>), PyNone} ]
FlagInputs == UNION {[1..k -> FlagRecords] : k \in 0..MaxFlagRows}

LoadTransitoFlags(df) ==
    /\ pc = "idle"
    /\ pc' = "flags"
    /\ df_transito' = df
    /\ transito_flags' = load_transito_flags(df)
    /\ UNCHANGED <<keyVars, calVars, progVars, metaVars, sanityVars, ventasVars, nameVars,
                   tallyVars, reportVars, pageVars, joinVars, activosVars>>

NextFlags == pc = "idle" /\ \E df \in FlagInputs : LoadTransitoFlags(df)

(***************************************************************************)
(* The page from the month and week filter to the tally of the quota       *)
(***************************************************************************)
\* lines 678-718: df_f, the sales of the months selected and, when weeks are
\* selected, of those weeks
week_label(r) == <<r.T_MonthKey, r.T_WeekOfMonth>>
months_filter(df, months) ==
    IF months # {} THEN SelectSeq(df, LAMBDA r : r.T_MonthKey \in months) ELSE <<>>
weeks_filter(df, weeks) ==
    IF weeks # {} THEN SelectSeq(df, LAMBDA r : week_label(r) \in weeks) ELSE df
w_options_of(df) == {week_label(df[i]) : i \in 1..Len(df)}

\* Inputs of SpecPage: up to MaxPageSales sales of two executives in two
\* months and two weeks of each.
MaxPageSales == 2
PageRecords ==
    [ EJECUTIVO : {Ana, Beto},
      T_MonthKey : {[y |-> 2025, m |-> 12], [y |-> 2026, m |-> 1]},
      T_WeekOfMonth : {1, 2} ]
PageInputs == UNION {[1..n -> PageRecords] : n \in 1..MaxPageSales}

\* lines 611-622: the sales of the executives selected in the sidebar
ejecutivo_filter(ven, ej_selected) ==
    IF ej_selected = {} THEN ven ELSE SelectSeq(ven, LAMBDA r : r.EJECUTIVO \in ej_selected)
\* lines 611-996: the sidebar filter, the month and week selection, the tally
\* of the simulation or the stop of the page, then the month of the quota,
\* its window and its tally
Page(ven, ej_selected, months, weeks, key) ==
    LET flt == ejecutivo_filter(ven, ej_selected)
        df_f == weeks_filter(months_filter(flt, months), weeks)
        options == unique_months(ven)
        w == window_keys(options, key)
        df_meta_base == SelectSeq(flt, LAMBDA r : \E j \in 1..Len(w) : w[j] = r.T_MonthKey)
    IN /\ pc = "idle"
       /\ ventas' = ven
       /\ ventas_flt' = flt
       /\ m_sel' = months
       /\ w_sel' = weeks
       /\ df_export_base' = df_f
       /\ IF df_f = <<>>
          THEN /\ pc' = "stop_sim"
               /\ UNCHANGED <<months_selected, tally_sim, meta_month_options, meta_month_key,
                               meta_window_keys, tally_metas>>
          ELSE /\ months_selected' = unique_months(df_f)
               /\ tally_sim' = tally(df_f, unique_months(df_f))
               /\ meta_month_options' = options
               /\ meta_month_key' = key
               /\ meta_window_keys' = w
               /\ IF df_meta_base = <<>>
                  THEN pc' = "stop" /\ UNCHANGED tally_metas
                  ELSE pc' = "page" /\ tally_metas' = tally(df_meta_base, w)
       /\ UNCHANGED <<empleados, ingreso_map_norm, first_dt_ventas_norm, ref_day>>
       /\ UNCHANGED <<today_d, dias_hab_eq_total, dias_hab_eq_elapsed, dias_hab_eq_remaining,
                      df_sanity_exec, tmp_for_style, df_sanity_team, df_sanity_centro,
                      df_sanity_global>>
       /\ UNCHANGED <<keyVars, calVars, progVars, metaVars, nameVars, reportVars, flagVars,
                      joinVars, activosVars>>

NextPage ==
    pc = "idle" /\ \E ven \in PageInputs :
        \E sel \in {{}} \cup {{ven[i].EJECUTIVO} : i \in 1..Len(ven)} :
            LET flt == ejecutivo_filter(ven, sel)
            IN \E months \in SUBSET {flt[i].T_MonthKey : i \in 1..Len(flt)} :
                   \E weeks \in SUBSET w_options_of(months_filter(flt, months)) :
                       \E key \in {ven[i].T_MonthKey : i \in 1..Len(ven)} :
                           Page(ven, sel, months, weeks, key)

(***************************************************************************)
(* add_supervisor_join                                                     *)
(***************************************************************************)
ej_norm(r) == normalize_name(PyStr(str(r.EJECUTIVO)))
\* the rows of the personnel whose normalised name is that of the sale
matches(r, emp) == SelectSeq(emp, LAMBDA p : emp_norm(p) = ej_norm(r))
\* merge(how="left") of one sale, then fillna("BAJA")
joined(r, ms) ==
    IF ms = <<>>
    THEN << [FOLIO |-> r.FOLIO, EJECUTIVO |-> r.EJECUTIVO, Supervisor |-> BAJA] >>
    ELSE table([j \in 1..Len(ms) |->
             [FOLIO |-> r.FOLIO, EJECUTIVO |-> r.EJECUTIVO, Supervisor |-> ms[j].Supervisor]])
RECURSIVE add_supervisor_join(_, _)
add_supervisor_join(ventas_df, empleados_df) ==
    IF ventas_df = <<>> THEN <<>>
    ELSE joined(Head(ventas_df), matches(Head(ventas_df), empleados_df))
         \o add_supervisor_join(Tail(ventas_df), empleados_df)

\* Inputs of SpecJoin: up to MaxJoinSales sales of three executive names, two
\* of them one name in two spellings, and a personnel of 0 to 2 rows.
MaxJoinSales == 2
SUP2 == <<"S", "U", "P", "2">>
JoinSales ==
    [ FOLIO : {<<"1">>, <<"2">>},
      EJECUTIVO : {Ana, PyStr(<<"A", "N", "A">>), Beto} ]
JoinSalesInputs == UNION {[1..n -> JoinSales] : n \in 1..MaxJoinSales}
JoinEmpRows ==
    [ Nombre : {Ana, PyStr(<<"A", "N", "A">>), PyStr(<<"C", "a", "r", "o">>)},
      Supervisor : {SUP1, SUP2} ]
JoinEmpInputs ==
    {<<>>} \cup {<<p>> : p \in JoinEmpRows}
           \cup {<<p1, p2>> : p1 \in JoinEmpRows, p2 \in JoinEmpRows}

\* lines 543-544: ventas = add_supervisor_join(ventas_raw, empleados)
AddSupervisorJoin(ventas_df, empleados_df) ==
    /\ pc = "idle"
    /\ pc' = "join"
    /\ ventas_raw' = ventas_df
    /\ empleados' = empleados_df
    /\ ventas' = add_supervisor_join(ventas_df, empleados_df)
    /\ UNCHANGED <<ingreso_map_norm, first_dt_ventas_norm, ref_day>>
    /\ UNCHANGED <<keyVars, calVars, progVars, metaVars, sanityVars, nameVars, tallyVars,
                   reportVars, flagVars, pageVars, activosVars>>

NextJoin ==
    pc = "idle" /\ \E ventas_df \in JoinSalesInputs : \E empleados_df \in JoinEmpInputs :
        AddSupervisorJoin(ventas_df, empleados_df)

(***************************************************************************)
(* The executives of the quota table                                       *)
(***************************************************************************)
\* lines 999-1006: the rows of df_metas whose executive has a sale of the
\* target month in ventas_flt
sales_of_month(flt, ej, key) ==
    Len(SelectSeq(flt, LAMBDA r : r.EJECUTIVO = ej /\ r.T_MonthKey = key))
status_activo(flt, ej, key) == sales_of_month(flt, ej, key) > 0
activos_rows(t, flt, key) == SelectSeq(t, LAMBDA row : status_activo(flt, row.EJECUTIVO, key))

\* lines 910-1011: the month of the quota, its window, the tally of the
\* window and the rows of the active executives; the run stops when the
\* window has no sale and when no executive is active
MetasActivos(ven, ej_selected, key) ==
    LET flt == ejecutivo_filter(ven, ej_selected)
        options == unique_months(ven)
        w == window_keys(options, key)
        df_meta_base == SelectSeq(flt, LAMBDA r : \E j \in 1..Len(w) : w[j] = r.T_MonthKey)
        t == tally(df_meta_base, w)
    IN /\ pc = "idle"
       /\ ventas' = ven
       /\ ventas_flt' = flt
       /\ meta_month_options' = options
       /\ meta_month_key' = key
       /\ meta_window_keys' = w
       /\ IF df_meta_base = <<>>
          THEN pc' = "stop" /\ UNCHANGED <<tally_metas, df_metas_activos>>
          ELSE /\ tally_metas' = t
               /\ df_metas_activos' = activos_rows(t, flt, key)
               /\ pc' = IF activos_rows(t, flt, key) = <<>> THEN "no_activos" ELSE "activos"
       /\ UNCHANGED <<df_export_base, months_selected, tally_sim>>
       /\ UNCHANGED <<empleados, ingreso_map_norm, first_dt_ventas_norm, ref_day>>
       /\ UNCHANGED <<today_d, dias_hab_eq_total, dias_hab_eq_elapsed, dias_hab_eq_remaining,
                      df_sanity_exec, tmp_for_style, df_sanity_team, df_sanity_centro,
                      df_sanity_global>>
       /\ UNCHANGED <<keyVars, calVars, progVars, metaVars, nameVars, reportVars, flagVars,
                      pageVars, joinVars>>

NextActivos ==
    pc = "idle" /\ \E ven \in SalesInputs : \E sel \in EjSelections :
        \E key \in {ven[i].T_MonthKey : i \in 1..Len(ven)} : MetasActivos(ven, sel, key)

NormalizeName(v) ==
    /\ pc = "idle"
    /\ pc' = "name"
    /\ name_in' = v
    /\ name_key' = normalize_name(v)
    /\ UNCHANGED <<keyVars, calVars, progVars, metaVars, sanityVars, ventasVars, tallyVars, reportVars, flagVars, pageVars, joinVars, activosVars>>

NextName == pc = "idle" /\ \E v \in NameInputs : NormalizeName(v)

Init ==
    /\ pc = "idle"
    /\ folio_in = PyNone
    /\ folio_key = <<>>
    /\ year = 0
    /\ puentes = {}
    /\ start_d = 0
    /\ end_d = 0
    /\ total = 0
    /\ df_prog = <<>>
    /\ prog_split = <<>>
    /\ reporte = <<>>
    /\ df_transito = <<>>
    /\ transito_flags = <<>>
    /\ m_sel = {}
    /\ w_sel = {}
    /\ ventas_raw = <<>>
    /\ df_metas_activos = <<>>
    /\ pivot_sim = <<>>
    /\ df_sim = <<>>
    /\ meta_total_all = 0
    /\ pivot_metas = <<>>
    /\ df_metas = <<>>
    /\ df_metas_view = <<>>
    /\ df_global = [ejecutivos_activos |-> 0, meta_global |-> 0]
    /\ meta_month_key = [y |-> 0, m |-> 0]
    /\ today_d = 0
    /\ dias_hab_eq_total = 0
    /\ dias_hab_eq_elapsed = 0
    /\ dias_hab_eq_remaining = 0
    /\ df_sanity_exec = <<>>
    /\ tmp_for_style = <<>>
    /\ df_sanity_team = <<>>
    /\ df_sanity_centro = <<>>
    /\ df_sanity_global = <<>>
    /\ empleados = <<>>
    /\ ventas = <<>>
    /\ ingreso_map_norm = <<>>
    /\ first_dt_ventas_norm = <<>>
    /\ ref_day = 0
    /\ name_in = PyNone
    /\ name_key = <<>>
    /\ df_export_base = <<>>
    /\ months_selected = <<>>
    /\ tally_sim = <<>>
    /\ ventas_flt = <<>>
    /\ meta_month_options = <<>>
    /\ meta_window_keys = <<>>
    /\ tally_metas = <<>>

SpecKey == Init /\ [][NextKey]_vars
SpecCal == Init /\ [][NextCal]_vars
SpecProg == Init /\ [][NextProg]_vars
SpecMeta == Init /\ [][NextMeta]_vars
SpecSanity == Init /\ [][NextSanity]_vars
SpecTenure == Init /\ [][NextTenure]_vars
SpecMonth == Init /\ [][NextMonth]_vars
SpecName == Init /\ [][NextName]_vars
SpecTally == Init /\ [][NextTally]_vars
SpecReport == Init /\ [][NextReport]_vars
SpecFlags == Init /\ [][NextFlags]_vars
SpecPage == Init /\ [][NextPage]_vars
SpecJoin == Init /\ [][NextJoin]_vars
SpecActivos == Init /\ [][NextActivos]_vars

(***************************************************************************)
(* C8                                                                      *)
(***************************************************************************)
(* Gap identity of the sanity check (C1)                                   *)
(***************************************************************************)
Rows(t) == {t[i] : i \in 1..Len(t)}
RECURSIVE TotalOf(_, _)
TotalOf(t, col) == IF t = <<>> THEN 0 ELSE TotalOf(Tail(t), col) + Head(t)[col]
\* gap + total = quota, total = completed + in transit, gap = quota - total
GapIdentity(quota, gap, tot, completed, in_transit) ==
    /\ tot = completed + in_transit
    /\ gap = quota - tot
    /\ gap + tot = quota
    /\ tot > quota => gap < 0
\* a rollup row is the column sums of the executives it stands for
RollsUp(g, members, quota, gap) ==
    /\ g.ventas_hechas = TotalOf(members, "ventas_hechas_mes")
    /\ g.ventas_en_transito = TotalOf(members, "ventas_en_transito_mes")
    /\ g.total_ventas_hechas = TotalOf(members, "total_ventas_hechas_mes")
    /\ quota = TotalOf(members, "meta_mes_actual")
    /\ GapIdentity(quota, gap, g.total_ventas_hechas, g.ventas_hechas, g.ventas_en_transito)

\* C1: in the table per executive and in every rollup of it (by supervisor,
\* by site, global) gap + total = quota, with total = completed + in transit
\* and gap the signed difference quota - total, negative when the total
\* exceeds the quota.
C1_GapIdentity ==
    pc = "sanity" =>
        /\ \A r \in Rows(df_sanity_exec) :
               GapIdentity(r.meta_mes_actual, r.gap_meta, r.total_ventas_hechas_mes,
                           r.ventas_hechas_mes, r.ventas_en_transito_mes)
        /\ \A r \in Rows(df_sanity_exec) :
               /\ \E g \in Rows(df_sanity_team) : g.Supervisor = r.Supervisor
               /\ \E g \in Rows(df_sanity_centro) : g.CentroKey = r.CentroKey
        /\ \A g \in Rows(df_sanity_team) :
               RollsUp(g, SelectSeq(df_sanity_exec, LAMBDA r : r.Supervisor = g.Supervisor),
                       g.meta_team, g.gap_team)
        /\ \A g \in Rows(df_sanity_centro) :
               RollsUp(g, SelectSeq(df_sanity_exec, LAMBDA r : r.CentroKey = g.CentroKey),
                       g.meta_centro, g.gap_centro)
        /\ Len(df_sanity_global) = 1
        /\ \A g \in Rows(df_sanity_global) :
               RollsUp(g, df_sanity_exec, g.meta_global, g.gap_global)
\* a team of two executives whose deliveries, completed and in transit,
\* exceed the team's quota
C1_Witness ==
    /\ pc = "sanity"
    /\ \E g \in Rows(df_sanity_team) :
           /\ g.ejecutivos >= 2
           /\ g.gap_team < 0
           /\ g.ventas_hechas > 0
           /\ g.ventas_en_transito > 0
    /\ \E r \in Rows(df_sanity_exec) : r.gap_meta < 0
    /\ \E r \in Rows(df_sanity_exec) : r.gap_meta > 0
    /\ \E g \in Rows(df_sanity_global) : g.gap_global < 0

(***************************************************************************)
(* The quota rule and the rolling average (C2, C3, C4, C5)                 *)
(***************************************************************************)
\* the integer part of a non-negative fraction
FloorOf(a) == CHOOSE k \in 0..a.num : k * a.den <= a.num /\ a.num < (k + 1) * a.den
QuotaTable(tenure, a) ==
    CASE tenure < 41 -> 6
      [] tenure >= 41 /\ a.num >= 7 * a.den -> FloorOf(a) + 1
      [] tenure >= 41 /\ a.num < 7 * a.den /\ a.num >= 6 * a.den -> FloorOf(a) + 2
      [] OTHER -> 7

\* C2: an active executive's quota is the first matching rule of the table
\* (tenure under 41 days: 6; average at least 7: floor + 1; average at least
\* 6: floor + 2; otherwise 7), for the tenure and the average of the row, in
\* the simulation table and in the quota table of the target month.
C2_QuotaTable ==
    /\ \A r \in Rows(df_sim) :
           /\ r.dias_activo_al_1ro >= 0
           /\ r.status = "ACTIVO" =>
                  r.meta_simulacion = QuotaTable(r.dias_activo_al_1ro, r.promedio)
    /\ \A r \in Rows(df_metas) :
           /\ r.dias_activo_al_1ro >= 0
           /\ r.meta_mes_actual = QuotaTable(r.dias_activo_al_1ro, r.prom_ult_3m)
\* an executive of 100 days with 6 and 7 sales: average 6.5, quota 8
C2_Witness ==
    /\ pc = "metas"
    /\ \E r \in Rows(df_metas) :
           /\ r.dias_activo_al_1ro = 100
           /\ r.win = <<6, 7>>
           /\ r.meta_mes_actual = 8

RECURSIVE SumRange(_, _, _)
SumRange(row, a, b) == IF a > b THEN 0 ELSE row[a] + SumRange(row, a + 1, b)
LeadingZeros(row) ==
    CHOOSE k \in 0..Len(row) :
        /\ \A i \in 1..k : row[i] = 0
        /\ k = Len(row) \/ row[k + 1] # 0
AverageIs(a, row) ==
    LET k == LeadingZeros(row) IN
        k < Len(row) =>
            /\ a.den > 0
            /\ a.num * (Len(row) - k) = SumRange(row, k + 1, Len(row)) * a.den

\* C3: for monthly counts with k leading zeros and then a nonzero month, the
\* rolling average is the sum of the counts after the k zeros divided by the
\* window length minus k; later zero months stay in the count.
C3_LeadingZeros ==
    /\ \A r \in Rows(df_sim) : AverageIs(r.promedio, r.vals)
    /\ \A r \in Rows(df_metas) : AverageIs(r.prom_ult_3m, r.win)
\* the window [0, 0, 5, 3]: sum 8 over 2 months
C3_Witness ==
    /\ pc = "sim"
    /\ \E r \in Rows(df_sim) :
           r.vals = <<0, 0, 5, 3>> /\ r.promedio = [num |-> 8, den |-> 2]

RECURSIVE SumActivos(_, _)
SumActivos(t, col) ==
    IF t = <<>> THEN 0
    ELSE (IF Head(t).status = "ACTIVO" THEN Head(t)[col] ELSE 0) + SumActivos(Tail(t), col)

\* C4: an executive whose status is BAJA has quota 0 in the simulation table
\* and no row in the quota table of the target month, whatever the tenure and
\* the average; the totals are the sums of the active executives' quotas.
C4_BajaZero ==
    /\ \A r \in Rows(df_sim) : r.status = "BAJA" => r.meta_simulacion = 0
    /\ meta_total_all = SumActivos(df_sim, "meta_simulacion")
    /\ \A r \in Rows(df_metas) : r.status = "ACTIVO"
    /\ \A p \in Rows(pivot_metas) :
           p.n_mes = 0 => \A r \in Rows(df_metas) : r.EJECUTIVO # p.EJECUTIVO
    /\ pc = "metas" => df_global.meta_global = SumActivos(df_metas, "meta_mes_actual")
\* an inactive executive of more than 41 days with an average of at least 6,
\* beside an active one
C4_Witness ==
    /\ pc = "sim"
    /\ \E r \in Rows(df_sim) :
           /\ r.status = "BAJA"
           /\ r.dias_activo_al_1ro >= 41
           /\ r.promedio.num >= 6 * r.promedio.den
           /\ r.meta_simulacion = 0
    /\ \E r \in Rows(df_sim) : r.status = "ACTIVO"
    /\ meta_total_all > 0

AllZero(row) == \A i \in 1..Len(row) : row[i] = 0

\* C5: for monthly counts that are all zero the rolling average is 0, the
\* division is by a positive count, and the row has no nonzero month flagged.
C5_AllZero ==
    /\ \A r \in Rows(df_sim) :
           AllZero(r.vals) =>
               /\ r.promedio.num = 0 /\ r.promedio.den > 0
               /\ r.count_active > 0
               /\ r.has_nonzero = FALSE
    /\ \A r \in Rows(df_metas) :
           AllZero(r.win) =>
               /\ r.prom_ult_3m.num = 0 /\ r.prom_ult_3m.den > 0
               /\ r.cnt > 0
               /\ r.has_nz = FALSE
C5_Witness ==
    /\ pc = "sim"
    /\ \E r \in Rows(df_sim) :
           r.vals = <<0, 0, 0>> /\ r.has_nonzero = FALSE /\ r.promedio.num = 0


(***************************************************************************)
KeyBlank(x) ==
    \/ x.kind = "none"
    \/ strip(str(x)) = <<>>
    \/ lower(strip(str(x))) \in {NanText, NoneText}
AllZeros(s) == \A i \in 1..Len(s) : s[i] = "0"
AllDigits(s) == \A i \in 1..Len(s) : s[i] \in Digits
\* the trimmed text is  <digits> "." <zeros>  with at least one digit
FloatLike(t) ==
    /\ has_dot(t)
    /\ split_left(t) # <<>>
    /\ AllDigits(split_left(t))
    /\ AllZeros(split_right(t))
\* the trimmed text is  <something> "." <zeros>  with at least one character
\* before the point and at least one zero after it
ZeroFraction(t) ==
    /\ has_dot(t)
    /\ split_left(t) # <<>>
    /\ split_right(t) # <<>>
    /\ AllZeros(split_right(t))
DigitsDot0(t) ==
    /\ Len(t) >= 3
    /\ SubSeq(t, Len(t) - 1, Len(t)) = <<".", "0">>
    /\ AllDigits(SubSeq(t, 1, Len(t) - 2))

\* C8 as stated: blank inputs give ""; a trailing ".0" after digits is dropped;
\* ANY text with a decimal point and an all-zero fractional part loses the
\* fractional part; everything else comes back trimmed.
C8_AsStated ==
    pc = "folio" =>
        LET t == strip(str(folio_in)) IN
        /\ KeyBlank(folio_in) => folio_key = <<>>
        /\ ~KeyBlank(folio_in) /\ DigitsDot0(t) => folio_key = SubSeq(t, 1, Len(t) - 2)
        /\ ~KeyBlank(folio_in) /\ ZeroFraction(t) => folio_key = split_left(t)
        /\ ~KeyBlank(folio_in) /\ ~has_dot(t) => folio_key = t

\* C8 amended: the fractional part is dropped only when the text before the
\* first decimal point is a non-empty run of digits and the text after it is
\* zeros only; blank inputs (None, empty, whitespace, "nan"/"none" in any case)
\* give ""; every other input comes back trimmed and otherwise unchanged.
C8_FolioKey ==
    pc = "folio" =>
        LET t == strip(str(folio_in)) IN
        /\ KeyBlank(folio_in) => folio_key = <<>>
        /\ ~KeyBlank(folio_in) /\ DigitsDot0(t) => folio_key = SubSeq(t, 1, Len(t) - 2)
        /\ ~KeyBlank(folio_in) /\ FloatLike(t) => folio_key = split_left(t)
        /\ ~KeyBlank(folio_in) /\ ~FloatLike(t) => folio_key = t

\* "123.00" reached: a float-like text that does not end in ".0"
C8_Witness ==
    /\ pc = "folio"
    /\ folio_in = PyStr(<<"1", "2", "3", ".", "0", "0">>)
    /\ folio_key = <<"1", "2", "3">>

(***************************************************************************)
(* C6, C7, C9: the business calendar                                       *)
(***************************************************************************)
\* weight of one calendar day, in half days, by the day's own year
IsHoliday(d) == d \in mexico_puentes(YearOf(d))
Weight(d) ==
    IF IsHoliday(d) \/ weekday(d) = 6 THEN 0
    ELSE IF weekday(d) = 5 THEN 1
    ELSE 2
RECURSIVE SumWeight(_, _)
SumWeight(a, b) == IF b < a THEN 0 ELSE Weight(b) + SumWeight(a, b - 1)

\* C6: workable_equiv_between(start, end) is 0 when end < start and otherwise
\* the sum over every day of [start, end] of the day's weight: 0 for a holiday
\* of the day's own year or a Sunday, 0.5 for a non-holiday Saturday, 1 for a
\* non-holiday Monday to Friday.
C6_SumOfWeights ==
    pc = "web" =>
        /\ end_d < start_d => total = 0
        /\ end_d >= start_d => total = SumWeight(start_d, end_d)
        /\ end_d = start_d => total = Weight(start_d)

\* 2021-12-24 .. 2022-01-03: crosses the year, with the Saturday holidays
\* 2021-12-25 and 2022-01-01; 7 working days
C6_Witness ==
    /\ pc = "web"
    /\ start_d = Date(2021, 12, 24)
    /\ end_d = Date(2022, 1, 3)
    /\ weekday(Date(2022, 1, 1)) = 5
    /\ total = 14

\* C7: with the start fixed the value does not decrease as the end date grows:
\* every earlier end date (also one before the start) gives at most the value
\* of the current end date.
C7_Monotone ==
    pc = "web" =>
        \A e1 \in (start_d - Back)..end_d :
            workable_equiv_between(start_d, e1) <= total

C7_Witness ==
    /\ pc = "web"
    /\ end_d > start_d
    /\ YearOf(start_d) # YearOf(end_d)
    /\ total > workable_equiv_between(start_d, start_d)
    /\ workable_equiv_between(start_d, start_d) > 0

\* the n-th Monday of a month: the first Monday of the month plus 7 * (n - 1)
FirstMonday(y, m) ==
    CHOOSE d \in Date(y, m, 1)..Date(y, m, 7) : weekday(d) = 0
NthMonday(y, m, n) == FirstMonday(y, m) + 7 * (n - 1)
InMonth(d, y, m) == Date(y, m, 1) <= d /\ d <= Date(y, m, DaysInMonth(y, m))

\* C9: the holiday set of a year is exactly Jan 1, the first Monday of
\* February, the third Monday of March, May 1, Sep 16, the third Monday of
\* November and Dec 25; each n-th Monday is a Monday inside its month with
\* day of month in 7(n-1)+1 .. 7n.
C9_Holidays ==
    pc = "puentes" =>
        /\ puentes =
              { Date(year, 1, 1), NthMonday(year, 2, 1), NthMonday(year, 3, 3),
                Date(year, 5, 1), Date(year, 9, 16), NthMonday(year, 11, 3),
                Date(year, 12, 25) }
        /\ \A mn \in {<<2, 1>>, <<3, 3>>, <<11, 3>>} :
              LET d == nth_weekday_of_month(year, mn[1], 0, mn[2])
                  dom == d - Date(year, mn[1], 1) + 1
              IN /\ d \in puentes
                 /\ weekday(d) = 0
                 /\ InMonth(d, year, mn[1])
                 /\ 7 * (mn[2] - 1) + 1 <= dom /\ dom <= 7 * mn[2]

\* 2024: the third Monday of March is the 18th
C9_Witness ==
    /\ pc = "puentes"
    /\ year = 2024
    /\ Date(2024, 3, 18) \in puentes
    /\ weekday(Date(2024, 3, 1)) # 0

(***************************************************************************)
(* C10: the delivery split per vendor                                      *)
(***************************************************************************)
\* the normalized status of a row
NormStatus(r) == normalize_name(r.ESTATUS)
BlankVenta(x) ==
    \/ x.kind \in {"none", "float_nan"}
    \/ lower(strip(str(x))) \in {<<>>, NanText, NoneText}
Cancelled(r) == NormStatus(r) = CANC_ERROR
InTransit(r) ==
    /\ ~Cancelled(r)
    /\ \/ NormStatus(r) \in {EN_ENTREGA, EN_PREPARACION, SOLICITADO, BACK_OFFICE}
       \/ NormStatus(r) = ENTREGADO /\ BlankVenta(r.VENTA)
Completed(r) == ~Cancelled(r) /\ ~InTransit(r)
\* number of rows among rows that are of vendor v (its stripped name)
RECURSIVE CountRows(_, _)
CountRows(rows, v) ==
    IF rows = <<>> THEN 0
    ELSE (IF strip(str(Head(rows).VENDEDOR)) = v THEN Head(rows).n ELSE 0)
         + CountRows(Tail(rows), v)
VendorNames == {strip(str(df_prog[i].VENDEDOR)) : i \in 1..Len(df_prog)}
SplitRowsOf(v) == {k \in 1..Len(prog_split) : prog_split[k].VENDEDOR = v}

\* C10: per vendor, cancelled rows count for nothing, in_transit counts the
\* remaining rows with an in-transit status or ENTREGADO with a blank sale,
\* completed counts the other remaining rows, total is their sum (a vendor with
\* no remaining row has no row in the split, that is all three are 0).
C10_Split ==
    pc = "prog" =>
        LET transit == SelectSeq(df_prog, InTransit)
            completed == SelectSeq(df_prog, Completed)
        IN /\ \A k \in 1..Len(prog_split) : prog_split[k].VENDEDOR \in VendorNames
           /\ \A v \in VendorNames :
                 LET nT == CountRows(transit, v)
                     nC == CountRows(completed, v)
                 IN IF nT + nC = 0 THEN SplitRowsOf(v) = {}
                    ELSE /\ Cardinality(SplitRowsOf(v)) = 1
                         /\ \A k \in SplitRowsOf(v) :
                               /\ prog_split[k].transito_mes = nT
                               /\ prog_split[k].hechas_mes = nC
                               /\ prog_split[k].total_mes = nT + nC

\* a vendor with a cancelled row and delivered rows with a blank sale
C10_Witness ==
    /\ pc = "prog"
    /\ \E i, j \in 1..Len(df_prog) :
          /\ Cancelled(df_prog[i])
          /\ NormStatus(df_prog[j]) = ENTREGADO /\ BlankVenta(df_prog[j].VENTA)
          /\ strip(str(df_prog[i].VENDEDOR)) = strip(str(df_prog[j].VENDEDOR))
          /\ df_prog[j].n = 2
    /\ Len(prog_split) = 1
    /\ prog_split[1].transito_mes = 2 /\ prog_split[1].hechas_mes = 0

(***************************************************************************)
(* Expected count to date and the on-track flag (C11)                      *)
(***************************************************************************)
\* floor(quota * r), r the share of the month elapsed held in [0, 1]
ExpectedByToday(quota) ==
    IF dias_hab_eq_elapsed <= 0 THEN 0
    ELSE IF dias_hab_eq_elapsed >= dias_hab_eq_total THEN quota
    ELSE CHOOSE k \in 0..quota :
             /\ k * dias_hab_eq_total <= quota * dias_hab_eq_elapsed
             /\ quota * dias_hab_eq_elapsed < (k + 1) * dias_hab_eq_total
ExpectedAndOnTrack(g, quota) ==
    /\ g.esperado_a_hoy = ExpectedByToday(quota)
    /\ g.al_corriente <=> (g.ventas_hechas + g.ventas_en_transito >= g.esperado_a_hoy)

\* C11: per executive, per supervisor, per site and globally the expected
\* count to date is floor(quota * r), r = elapsed / total of the month's
\* business-day equivalents held in [0, 1] (the 1e-9 added before the floor
\* changes nothing), and the on-track flag is true exactly when completed +
\* in transit >= the expected count.
C11_ExpectedByToday ==
    pc = "sanity" =>
        /\ Len(tmp_for_style) = Len(df_sanity_exec)
        /\ \A i \in 1..Len(df_sanity_exec) :
               /\ tmp_for_style[i].EJECUTIVO = df_sanity_exec[i].EJECUTIVO
               /\ tmp_for_style[i].esperado_a_hoy
                      = ExpectedByToday(df_sanity_exec[i].meta_mes_actual)
               /\ tmp_for_style[i].al_corriente <=>
                      (df_sanity_exec[i].ventas_hechas_mes
                           + df_sanity_exec[i].ventas_en_transito_mes
                       >= tmp_for_style[i].esperado_a_hoy)
        /\ \A g \in Rows(df_sanity_team) : ExpectedAndOnTrack(g, g.meta_team)
        /\ \A g \in Rows(df_sanity_centro) : ExpectedAndOnTrack(g, g.meta_centro)
        /\ \A g \in Rows(df_sanity_global) : ExpectedAndOnTrack(g, g.meta_global)
\* mid-month, the quota times the share elapsed is not a whole number; one
\* executive is on track, another is not, and neither is their team
C11_Witness ==
    /\ pc = "sanity"
    /\ 0 < dias_hab_eq_elapsed /\ dias_hab_eq_elapsed < dias_hab_eq_total
    /\ \E i \in 1..Len(tmp_for_style) :
           /\ tmp_for_style[i].al_corriente
           /\ tmp_for_style[i].esperado_a_hoy > 0
           /\ (tmp_for_style[i].meta_mes_actual * dias_hab_eq_elapsed)
                  % dias_hab_eq_total # 0
    /\ \E i \in 1..Len(tmp_for_style) : ~tmp_for_style[i].al_corriente
    /\ \E g \in Rows(df_sanity_team) :
           g.ejecutivos >= 2 /\ ~g.al_corriente /\ g.total_ventas_hechas > 0
    /\ \E g \in Rows(df_sanity_global) : g.esperado_a_hoy > 0

(***************************************************************************)
(* The rate required from today (C12)                                      *)
(***************************************************************************)
\* the remaining days of the rate, in half days: half a day counts as one day
RemainingForRate == IF dias_hab_eq_remaining = 1 THEN 2 ELSE dias_hab_eq_remaining
Positive(gap) == IF gap > 0 THEN gap ELSE 0
\* rate = max(gap, 0) / RemainingForRate, or max(gap, 0) itself, undivided,
\* when no day remains; the column of remaining days is the unrounded value
RateFromToday(g, gap) ==
    LET rate == g.ventas_diarias_necesarias_desde_hoy
    IN /\ g.dias_hab_equiv_restantes = dias_hab_eq_remaining
       /\ RemainingForRate > 0 =>
              rate.num * RemainingForRate = 2 * Positive(gap) * rate.den
       /\ RemainingForRate = 0 => rate = [num |-> Positive(gap), den |-> 1]

RECURSIVE SumExpected(_)
SumExpected(members) ==
    IF members = <<>> THEN 0
    ELSE ExpectedByToday(Head(members).meta_mes_actual) + SumExpected(Tail(members))
RECURSIVE SumPositiveGaps(_)
SumPositiveGaps(members) ==
    IF members = <<>> THEN 0
    ELSE Positive(Head(members).gap_meta) + SumPositiveGaps(Tail(members))
\* the group's five counts are the sums over its members and its rates come
\* from those sums and the calendar values of the month
GroupFromSums(g, members, quota, gap) ==
    /\ g.ventas_hechas = TotalOf(members, "ventas_hechas_mes")
    /\ g.ventas_en_transito = TotalOf(members, "ventas_en_transito_mes")
    /\ g.total_ventas_hechas = TotalOf(members, "total_ventas_hechas_mes")
    /\ quota = TotalOf(members, "meta_mes_actual")
    /\ gap = TotalOf(members, "gap_meta")
    /\ g.dias_hab_equiv_mes = dias_hab_eq_total
    /\ g.ventas_diarias_necesarias.num * dias_hab_eq_total
           = 2 * TotalOf(members, "meta_mes_actual") * g.ventas_diarias_necesarias.den
    /\ g.esperado_a_hoy = ExpectedByToday(TotalOf(members, "meta_mes_actual"))
    /\ g.al_corriente <=>
           (TotalOf(members, "total_ventas_hechas_mes") >= g.esperado_a_hoy)
    /\ RateFromToday(g, TotalOf(members, "gap_meta"))

\* C13: each supervisor row, each site row and the global row hold the sums
\* of completed, in transit, total, quota and gap over the rows of their
\* executives, and their full-month rate, expected count, on-track flag and
\* rate from today are computed from those sums with the calendar values of
\* the month, not from the executives' own rates.
C13_Rollups ==
    pc = "sanity" =>
        /\ \A g \in Rows(df_sanity_team) :
               GroupFromSums(g, SelectSeq(df_sanity_exec,
                                          LAMBDA r : r.Supervisor = g.Supervisor),
                             g.meta_team, g.gap_team)
        /\ \A g \in Rows(df_sanity_centro) :
               GroupFromSums(g, SelectSeq(df_sanity_exec,
                                          LAMBDA r : r.CentroKey = g.CentroKey),
                             g.meta_centro, g.gap_centro)
        /\ Len(df_sanity_global) = 1
        /\ \A g \in Rows(df_sanity_global) :
               GroupFromSums(g, df_sanity_exec, g.meta_global, g.gap_global)
\* a team of two whose expected count is more than the sum of its members'
\* expected counts, and whose rate from today comes from a summed gap smaller
\* than the sum of its members' positive gaps
C13_Witness ==
    /\ pc = "sanity"
    /\ dias_hab_eq_remaining > 0
    /\ \E g \in Rows(df_sanity_team) :
           LET members == SelectSeq(df_sanity_exec, LAMBDA r : r.Supervisor = g.Supervisor)
           IN /\ g.ejecutivos = 2
              /\ Len(members) = 2
              /\ g.esperado_a_hoy > SumExpected(members)
              /\ g.gap_team > 0
              /\ g.gap_team < SumPositiveGaps(members)
    /\ \E g \in Rows(df_sanity_centro) : g.ejecutivos = 2

(***************************************************************************)
(* Tenure at the first of the target month (C14)                           *)
(***************************************************************************)
SameName(a, b) == normalize_name(PyStr(strip(str(a)))) = normalize_name(PyStr(strip(str(b))))
\* the dates, as day numbers, on which personnel has the executive hired and
\* on which the executive sold
HiredOn(ej) ==
    { e.Fecha_Ingreso.t \div 2 : e \in { x \in Rows(empleados) :
          SameName(x.Nombre, ej) /\ x.Fecha_Ingreso # NaT } }
SoldOn(ej) == { v.T_DT.t \div 2 : v \in { x \in Rows(ventas) : SameName(x.EJECUTIVO, ej) } }
Earliest(S) == CHOOSE d \in S : \A e \in S : d <= e
EffectiveStart(ej) == IF HiredOn(ej) # {} THEN Earliest(HiredOn(ej)) ELSE Earliest(SoldOn(ej))
FirstOfMonth == Date(meta_month_key.y, meta_month_key.m, 1)

\* C14: the tenure of an executive is the number of days from the effective
\* start date to the first day of the target month, 0 when the start is
\* later; the start is the (earliest) hire date personnel has under the
\* normalised name, or else the date of the executive's earliest sale; an
\* executive that personnel does not have gets a tenure and a quota.
C14_Tenure ==
    pc \in {"metas", "stop"} /\ ventas # <<>> =>
        /\ Len(df_metas) = Len(pivot_metas)
        /\ \A r \in Rows(df_metas) :
               /\ r.dias_activo_al_1ro =
                      IF FirstOfMonth - EffectiveStart(r.EJECUTIVO) > 0
                      THEN FirstOfMonth - EffectiveStart(r.EJECUTIVO) ELSE 0
               /\ r.dias_activo_al_1ro \in Nat
               /\ r.meta_mes_actual \in Nat /\ r.meta_mes_actual >= 6
\* personnel has Beto only; Ana's first sale was 41 days before the first of
\* the month, at noon, and her quota is that of 41 days and an average of 7
C14_Witness ==
    /\ pc = "metas"
    /\ ventas # <<>>
    /\ \E r \in Rows(df_metas) :
           /\ HiredOn(r.EJECUTIVO) = {}
           /\ r.dias_activo_al_1ro = 41
           /\ r.meta_mes_actual = 8
           /\ \E v \in Rows(ventas) : SameName(v.EJECUTIVO, r.EJECUTIVO) /\ v.T_DT.t % 2 = 1
    /\ \E r \in Rows(df_metas) : HiredOn(r.EJECUTIVO) # {} /\ r.dias_activo_al_1ro = 0

(***************************************************************************)
(* The full-month rate and the guard on the month's total (C15)            *)
(***************************************************************************)
\* the first and the last day of the target month
MonthStart == Date(meta_month_key.y, meta_month_key.m, 1)
MonthEnd ==
    IF meta_month_key.m = 12 THEN Date(meta_month_key.y + 1, 1, 1) - 1
    ELSE Date(meta_month_key.y, meta_month_key.m + 1, 1) - 1
\* rate = quota / D_total, D_total in half days
FullMonthRate(g, quota) ==
    /\ g.dias_hab_equiv_mes = dias_hab_eq_total
    /\ g.ventas_diarias_necesarias.den # 0
    /\ g.ventas_diarias_necesarias.num * dias_hab_eq_total
           = 2 * quota * g.ventas_diarias_necesarias.den
NoGapRows ==
    /\ df_sanity_exec = <<>> /\ df_sanity_team = <<>>
    /\ df_sanity_centro = <<>> /\ df_sanity_global = <<>>

\* C15: with a month total above 0 the full-month rate of every row is
\* quota / total; with a total of 0 the run reports that the days could not
\* be computed and builds no gap table, so that nothing is divided by 0;
\* and the total of every calendar month is above 0.
C15_FullMonthRate ==
    /\ pc \in {"month", "sanity", "no_days"} =>
           dias_hab_eq_total = SumWeight(MonthStart, MonthEnd)
    /\ pc = "month" => dias_hab_eq_total > 0
    /\ pc = "sanity" =>
           /\ dias_hab_eq_total > 0
           /\ \A g \in Rows(df_sanity_exec) : FullMonthRate(g, g.meta_mes_actual)
           /\ \A g \in Rows(df_sanity_team) : FullMonthRate(g, g.meta_team)
           /\ \A g \in Rows(df_sanity_centro) : FullMonthRate(g, g.meta_centro)
           /\ \A g \in Rows(df_sanity_global) : FullMonthRate(g, g.meta_global)
    /\ pc = "no_days" => dias_hab_eq_total <= 0 /\ NoGapRows
    /\ pc # "no_days"
\* February of a common year, the month with the fewest days: 19 working
\* days and 4 Saturdays, and a quota of 8 to sell over them
C15_Witness ==
    /\ pc = "sanity"
    /\ meta_month_key.m = 2
    /\ month_bounds(meta_month_key)[2] - month_bounds(meta_month_key)[1] = 27
    /\ dias_hab_eq_total = 42
    /\ \E g \in Rows(df_sanity_exec) :
           g.meta_mes_actual = 8 /\ g.ventas_diarias_necesarias = Frac(16, 42)
    /\ \E g \in Rows(df_sanity_team) : g.ejecutivos = 2

(***************************************************************************)
(* Days elapsed and days remaining of the target month (C16)               *)
(***************************************************************************)
Earlier(a, b) == IF a < b THEN a ELSE b
Later(a, b) == IF a > b THEN a ELSE b

\* C16: for the target month [S, E] and today t, elapsed is 0 when t < S and
\* otherwise the business-day equivalent of [S, min(t, E)], so the month
\* total from t = E on; remaining is 0 when t > E and otherwise the
\* business-day equivalent of [max(t, S), E], so the month total up to t = S;
\* both lie between 0 and the month total.
C16_ElapsedRemaining ==
    pc = "sanity" =>
        /\ dias_hab_eq_total = SumWeight(MonthStart, MonthEnd)
        /\ dias_hab_eq_elapsed =
               IF today_d < MonthStart THEN 0
               ELSE SumWeight(MonthStart, Earlier(today_d, MonthEnd))
        /\ dias_hab_eq_remaining =
               IF today_d > MonthEnd THEN 0
               ELSE SumWeight(Later(today_d, MonthStart), MonthEnd)
        /\ today_d >= MonthEnd => dias_hab_eq_elapsed = dias_hab_eq_total
        /\ today_d <= MonthStart => dias_hab_eq_remaining = dias_hab_eq_total
        /\ 0 <= dias_hab_eq_elapsed /\ dias_hab_eq_elapsed <= dias_hab_eq_total
        /\ 0 <= dias_hab_eq_remaining /\ dias_hab_eq_remaining <= dias_hab_eq_total
\* a working day inside the month: it counts in the days elapsed and in the
\* days remaining, each a part of the month total
C16_Witness ==
    /\ pc = "sanity"
    /\ MonthStart < today_d /\ today_d < MonthEnd
    /\ 0 < dias_hab_eq_elapsed /\ dias_hab_eq_elapsed < dias_hab_eq_total
    /\ 0 < dias_hab_eq_remaining /\ dias_hab_eq_remaining < dias_hab_eq_total
    /\ dias_hab_eq_elapsed + dias_hab_eq_remaining = dias_hab_eq_total + 2

(***************************************************************************)
(* normalize_name (C17)                                                    *)
(***************************************************************************)
NameText == IF name_in = PyNone THEN <<>> ELSE name_in.s
\* the same name written otherwise: in the other case, without its accents,
\* with spaces around it, with every space doubled
Unaccented(s) ==
    [ i \in 1..Len(s) |->
        IF s[i] = "o_acute" THEN "o" ELSE IF s[i] = "O_ACUTE" THEN "O" ELSE s[i] ]
Padded(s) == <<" ", " ">> \o s \o <<" ">>
RECURSIVE SpacesDoubled(_)
SpacesDoubled(s) ==
    IF s = <<>> THEN <<>>
    ELSE IF Head(s) = " " THEN <<" ", " ">> \o SpacesDoubled(Tail(s))
    ELSE <<Head(s)>> \o SpacesDoubled(Tail(s))
SameKeyHowever ==
    \A t \in { lower(NameText), upper(NameText), Unaccented(NameText),
                Padded(NameText), SpacesDoubled(NameText) } :
        normalize_name(PyStr(t)) = name_key
\* no space at either end, no two spaces in a row, no combining mark
CleanKey(k) ==
    /\ k # <<>> => k[1] # " " /\ k[Len(k)] # " "
    /\ \A i \in 1..(Len(k) - 1) : ~(k[i] = " " /\ k[i + 1] = " ")
    /\ \A i \in 1..Len(k) : k[i] \notin Combining

\* C17, as stated: normalize_name gives one key to names that differ only in
\* letter case, accents or leading, trailing and repeated spaces; the key has
\* no space at either end, no two spaces in a row and no combining mark;
\* None and the empty text give the empty key.
C17_AsStated ==
    pc = "name" =>
        /\ SameKeyHowever
        /\ CleanKey(name_key)
        /\ NameText = <<>> => name_key = <<>>
\* C17, for the names without an accent typed on its own: the same
\* properties hold.
C17_PlainNames ==
    pc = "name" /\ (\A i \in 1..Len(NameText) : NameText[i] # "ACUTE") =>
        /\ SameKeyHowever
        /\ CleanKey(name_key)
        /\ NameText = <<>> => name_key = <<>>
\* the accent typed before the name: the key starts with a space
C17_Witness ==
    /\ pc = "name"
    /\ name_in = PyStr(<<"ACUTE", "a", " ", "B">>)
    /\ name_key = <<" ", "A", " ", "B">>

(***************************************************************************)
(* The monthly tally is dense (C18)                                        *)
(***************************************************************************)
\* the number of sales of the executive in the month
RECURSIVE SalesIn(_, _, _)
SalesIn(df, e, k) ==
    IF df = <<>> THEN 0
    ELSE SalesIn(Tail(df), e, k)
         + (IF Head(df).EJECUTIVO = e /\ Head(df).T_MonthKey = k THEN 1 ELSE 0)
RECURSIVE SumSeq(_)
SumSeq(q) == IF q = <<>> THEN 0 ELSE Head(q) + SumSeq(Tail(q))
\* a row per executive of the sales, a cell per month, the cell the number
\* of the executive's sales of the month
Dense(t, df, months) ==
    /\ \A r \in Rows(df) :
           r.EJECUTIVO # PyNone => \E i \in 1..Len(t) : t[i].EJECUTIVO = r.EJECUTIVO
    /\ \A i \in 1..Len(t), j \in 1..Len(t) : t[i].EJECUTIVO = t[j].EJECUTIVO => i = j
    /\ \A i \in 1..Len(t) :
           /\ \E r \in Rows(df) : r.EJECUTIVO = t[i].EJECUTIVO
           /\ DOMAIN t[i].vals = 1..Len(months)
           /\ \A j \in 1..Len(months) :
                  /\ t[i].vals[j] \in Nat
                  /\ t[i].vals[j] = SalesIn(df, t[i].EJECUTIVO, months[j])
InWindow(r) == \E j \in 1..Len(meta_window_keys) : meta_window_keys[j] = r.T_MonthKey

\* C18: the tally handed to the averaging step has, for every executive with
\* a sale and every month of the window, exactly one cell, the number of the
\* executive's sales of that month, 0 when there is none; no cell is missing
\* and no sale is counted twice.
C18_DenseTally ==
    /\ pc = "tally_sim" =>
           /\ Dense(tally_sim, df_export_base, months_selected)
           /\ \A r \in Rows(df_export_base) :
                  \E j \in 1..Len(months_selected) : months_selected[j] = r.T_MonthKey
           /\ SumSeq([i \in 1..Len(tally_sim) |-> SumSeq(tally_sim[i].vals)])
                  = Len(SelectSeq(df_export_base, LAMBDA r : r.EJECUTIVO # PyNone))
    /\ pc = "tally_metas" =>
           /\ Dense(tally_metas, SelectSeq(ventas_flt, InWindow), meta_window_keys)
           /\ SumSeq([i \in 1..Len(tally_metas) |-> SumSeq(tally_metas[i].vals)])
                  = Len(SelectSeq(ventas_flt, LAMBDA r : InWindow(r) /\ r.EJECUTIVO # PyNone))
\* a window of three months and two executives: a month without a sale of
\* one of them is an explicit 0, two sales in a month are a 2
C18_Witness ==
    /\ pc = "tally_metas"
    /\ Len(meta_window_keys) = 3
    /\ Len(tally_metas) = 2
    /\ \E i \in 1..2 : \E j \in 1..3 : tally_metas[i].vals[j] = 0
    /\ \E i \in 1..2 : \E j \in 1..3 : tally_metas[i].vals[j] = 2

(***************************************************************************)
(* The window of the quota (C19)                                           *)
(***************************************************************************)
MonthsWithSales == {ventas[i].T_MonthKey : i \in 1..Len(ventas)}
EarlierMonths == {k \in MonthsWithSales : month_lt(k, meta_month_key)}
\* the months with sales before the target that have fewer than WindowMonths
\* months with sales between them and the target
Preceding ==
    {k \in EarlierMonths :
        Cardinality({k2 \in EarlierMonths : month_lt(k, k2)}) < WindowMonths}
WindowSet == {meta_window_keys[j] : j \in 1..Len(meta_window_keys)}
Ascending(q) == \A i \in 1..Len(q), j \in 1..Len(q) : i < j => month_lt(q[i], q[j])
Chosen == pc \in {"tally_metas", "stop"}

C19_ThreeMonths ==
    /\ pc = "tally_metas"
    /\ meta_month_key = [y |-> 2026, m |-> 1]
    /\ meta_window_keys = << [y |-> 2025, m |-> 10], [y |-> 2025, m |-> 11], [y |-> 2025, m |-> 12] >>

(***************************************************************************)
(* Statuses with a qualifier in the split by executive (C20)               *)
(***************************************************************************)
TransitStatuses == {EN_ENTREGA, EN_PREPARACION, SOLICITADO, BACK_OFFICE}
ExactTransit(r) == est_norm(r) \in TransitStatuses
HasTransitWord(r) == \E w \in TransitStatuses : contains_word(est_norm(r), w)
ReportVendors == {vendedor(reporte[i]) : i \in 1..Len(reporte)}
RowsOf(v, P(_)) == Len(SelectSeq(reporte, LAMBDA r : vendedor(r) = v /\ P(r)))
SplitOf(v) ==
    IF \E k \in 1..Len(prog_split) : prog_split[k].VENDEDOR = v
    THEN LET k == CHOOSE k \in 1..Len(prog_split) : prog_split[k].VENDEDOR = v
         IN [transito_mes |-> prog_split[k].transito_mes, hechas_mes |-> prog_split[k].hechas_mes]
    ELSE [transito_mes |-> 0, hechas_mes |-> 0]
BlankDelivered(r) == est_norm(r) = ENTREGADO /\ venta_vacia(r.VENTA)
SoldDelivered(r) == est_norm(r) = ENTREGADO /\ ~venta_vacia(r.VENTA)
ByStatusOnly(r) == HasTransitWord(r) /\ ~ExactTransit(r)

\* C20 as stated: in the split by executive every row of the report whose
\* status has one of the four statuses in transit as a whole word, alone or
\* followed by a qualifier, is counted in transit.
C20_AsStated ==
    pc = "report" =>
        \A v \in ReportVendors :
            SplitOf(v).transito_mes = RowsOf(v, LAMBDA r : HasTransitWord(r) \/ BlankDelivered(r))
\* C20, what the split does: it counts in transit the rows whose status is
\* one of the four statuses exactly, or Entregado without a sale; a row
\* whose status has a qualifier is in transit for load_ventas, is not
\* selected by the query and is counted neither in transit nor delivered.
C20_ExactOnly ==
    pc = "report" =>
        /\ \A v \in ReportVendors :
               /\ SplitOf(v).transito_mes = RowsOf(v, LAMBDA r : ExactTransit(r) \/ BlankDelivered(r))
               /\ SplitOf(v).hechas_mes = RowsOf(v, SoldDelivered)
        /\ \A r \in Rows(reporte) :
               /\ ExactTransit(r) => is_transito_by_status(est_norm(r)) /\ is_transito(r)
               /\ ByStatusOnly(r) =>
                      /\ is_transito_by_status(est_norm(r))
                      /\ ~is_transito(r)
                      /\ r \notin Rows(df_prog)
\* a vendor with a row 'En entrega' and a row 'En entrega 2': one in transit
C20_Witness ==
    /\ pc = "report"
    /\ \E i \in 1..Len(reporte), j \in 1..Len(reporte) :
           /\ vendedor(reporte[i]) = vendedor(reporte[j])
           /\ ExactTransit(reporte[i])
           /\ ByStatusOnly(reporte[j])
           /\ SplitOf(vendedor(reporte[i])) = [transito_mes |-> 1, hechas_mes |-> 0]

(***************************************************************************)
(* The in-transit flag of a key (C21)                                      *)
(***************************************************************************)
KeyOf(r) == normalize_folio_key(r.FOLIO)

\* C21: the flags have one row for each non-empty key of the records and no
\* other row, and the flag of a key is TRUE exactly when one of the records
\* of that key is in transit, in whatever order the records come.
C21_FlagIsOr ==
    pc = "flags" =>
        /\ \A i \in 1..Len(transito_flags), j \in 1..Len(transito_flags) :
               transito_flags[i].FOLIO = transito_flags[j].FOLIO => i = j
        /\ \A i \in 1..Len(transito_flags) :
               /\ transito_flags[i].FOLIO # <<>>
               /\ \E r \in Rows(df_transito) : KeyOf(r) = transito_flags[i].FOLIO
               /\ transito_flags[i].IS_TRANSITO \in BOOLEAN
               /\ transito_flags[i].IS_TRANSITO <=>
                      \E r \in Rows(df_transito) :
                          KeyOf(r) = transito_flags[i].FOLIO /\ InTransit(r)
        /\ \A r \in Rows(df_transito) :
               KeyOf(r) # <<>> =>
                   \E i \in 1..Len(transito_flags) : transito_flags[i].FOLIO = KeyOf(r)
\* two records of one key written in two ways, the first in transit and the
\* second delivered: the key is flagged
C21_Witness ==
    /\ pc = "flags"
    /\ Len(df_transito) = 2
    /\ df_transito[1].FOLIO # df_transito[2].FOLIO
    /\ InTransit(df_transito[1]) /\ ~InTransit(df_transito[2])
    /\ transito_flags = << [FOLIO |-> <<"7">>, IS_TRANSITO |-> TRUE] >>
\* a record without key next to a record with one: one row
C21_NoKey ==
    /\ pc = "flags"
    /\ \E r \in Rows(df_transito) : KeyOf(r) = <<>>
    /\ Len(df_transito) = 2 /\ Len(transito_flags) = 1

(***************************************************************************)
(* The month and week filter and the tables of the quota (C22)             *)
(***************************************************************************)
Ran == pc \in {"stop_sim", "stop", "page"}
Selected(r) ==
    /\ r.T_MonthKey \in m_sel
    /\ w_sel # {} => week_label(r) \in w_sel
\* the window and the tally of the quota as the sales, the sidebar filter
\* and the target month alone determine them
QuotaTallyOfSales ==
    /\ IF EarlierMonths # {}
       THEN WindowSet = Preceding /\ Ascending(meta_window_keys)
       ELSE meta_window_keys = <<meta_month_key>>
    /\ pc = "page" <=> \E r \in Rows(ventas_flt) : InWindow(r)
    /\ pc = "page" => Dense(tally_metas, SelectSeq(ventas_flt, InWindow), meta_window_keys)

\* C22 as stated: whatever months and weeks are selected, none included,
\* the page goes on to the month of the quota, and the window and the tally
\* of the quota are the ones the sales and the target month determine.
C22_AsStated == Ran => pc # "stop_sim" /\ QuotaTallyOfSales
\* C22, what the page does: with a month selected the selection decides the
\* sales of the simulation only, and the tally of the quota is the one the
\* sales and the target month determine; with no month selected the page
\* stops before the month of the quota is chosen.
C22_OnlySimulation ==
    Ran =>
        /\ df_export_base = SelectSeq(ventas_flt, Selected)
        /\ pc = "stop_sim" <=> m_sel = {}
        /\ pc = "stop_sim" =>
               tally_sim = <<>> /\ meta_window_keys = <<>> /\ tally_metas = <<>>
        /\ pc # "stop_sim" =>
               /\ Dense(tally_sim, df_export_base, months_selected)
               /\ QuotaTallyOfSales
\* the month of the quota is selected alone: its window is the month before,
\* which the simulation does not see
C22_Witness ==
    /\ pc = "page"
    /\ m_sel = {meta_month_key}
    /\ w_sel # {}
    /\ Len(df_export_base) < Len(ventas)
    /\ meta_window_keys = << [y |-> 2025, m |-> 12] >>
    /\ tally_sim # tally_metas
\* no month is selected and the page stops
C22_Stopped == pc = "stop_sim" /\ ventas # <<>> /\ m_sel = {}

(***************************************************************************)
(* The rows of the gap table per executive (C23)                           *)
(***************************************************************************)
GapRowsOf(ej) == Len(SelectSeq(df_sanity_exec, LAMBDA r : r.EJECUTIVO = ej))
\* the rows of the split whose normalised vendor is the normalised executive
VendorRowsOf(ej) ==
    Len(SelectSeq(prog_split, LAMBDA g : g.VEN_NORM = normalize_name(PyStr(str(ej)))))
AtLeastOne(n) == IF n > 1 THEN n ELSE 1
RECURSIVE QuotaTimesRows(_)
QuotaTimesRows(view) ==
    IF view = <<>> THEN 0
    ELSE Head(view).meta_mes_actual * AtLeastOne(VendorRowsOf(Head(view).EJECUTIVO))
         + QuotaTimesRows(Tail(view))

\* C23 as stated: the gap table per executive has one row for each row of the
\* quota table of the target month, whatever the deliveries are, and the
\* global quota of the gap rollup is the global quota of the quota rollup.
C23_AsStated ==
    pc = "sanity" =>
        /\ Len(df_sanity_exec) = Len(df_metas_view)
        /\ \A i \in 1..Len(df_metas_view) : GapRowsOf(df_metas_view[i].EJECUTIVO) = 1
        /\ df_sanity_global[1].meta_global = df_global.meta_global
\* C23, what the merge does: an executive of the quota table has one row in
\* the gap table for each vendor of the split that normalises to the
\* executive's name, and one row when there is none; the global quota of
\* the gap rollup counts the executive's quota once per row.
C23_RowPerVendor ==
    pc = "sanity" =>
        /\ \A i \in 1..Len(df_metas_view) :
               GapRowsOf(df_metas_view[i].EJECUTIVO)
                   = AtLeastOne(VendorRowsOf(df_metas_view[i].EJECUTIVO))
        /\ \A r \in Rows(df_sanity_exec) :
               \E i \in 1..Len(df_metas_view) : df_metas_view[i].EJECUTIVO = r.EJECUTIVO
        /\ df_sanity_global[1].meta_global = QuotaTimesRows(df_metas_view)
        /\ df_sanity_global[1].ejecutivos_activos = df_global.ejecutivos_activos
\* the deliveries name one executive in two spellings: two rows in the gap
\* table and a global quota above that of the quota rollup
C23_Witness ==
    /\ pc = "sanity"
    /\ Len(prog_split) = 2
    /\ prog_split[1].VEN_NORM = prog_split[2].VEN_NORM
    /\ Len(df_sanity_exec) = Len(df_metas_view) + 1
    /\ df_sanity_global[1].meta_global > df_global.meta_global

(***************************************************************************)
(* The rows of the sales after the supervisors are attached (C24)          *)
(***************************************************************************)
Personnel(r) == {i \in 1..Len(empleados) : emp_norm(empleados[i]) = ej_norm(r)}
SalesLike(r) == Len(SelectSeq(ventas_raw, LAMBDA x : x = r))
JoinedLike(r, sup) ==
    Len(SelectSeq(ventas, LAMBDA x :
            x.FOLIO = r.FOLIO /\ x.EJECUTIVO = r.EJECUTIVO /\ x.Supervisor = sup))
Unmatched(r) == Personnel(r) = {}

\* C24 as stated: the sales with their supervisors are the sales, row for
\* row, whatever the personnel is, and a sale whose executive is no one of
\* the personnel has supervisor BAJA.
C24_AsStated ==
    pc = "join" =>
        /\ Len(ventas) = Len(ventas_raw)
        /\ \A i \in 1..Len(ventas_raw) :
               /\ ventas[i].FOLIO = ventas_raw[i].FOLIO
               /\ ventas[i].EJECUTIVO = ventas_raw[i].EJECUTIVO
               /\ Unmatched(ventas_raw[i]) => ventas[i].Supervisor = BAJA
\* C24, what the join does: a sale has one row for each row of the personnel
\* whose normalised name is the executive's, with that row's supervisor, and
\* one row with supervisor BAJA when there is none.
C24_RowPerPersonnelRow ==
    pc = "join" =>
        /\ \A r \in Rows(ventas_raw) :
               /\ Unmatched(r) =>
                      /\ JoinedLike(r, BAJA) = SalesLike(r)
                      /\ \A sup \in {SUP1, SUP2} : JoinedLike(r, sup) = 0
               /\ ~Unmatched(r) =>
                      \A sup \in {SUP1, SUP2, BAJA} :
                          JoinedLike(r, sup) =
                              SalesLike(r) * Cardinality({i \in Personnel(r) :
                                                             empleados[i].Supervisor = sup})
        /\ \A x \in Rows(ventas) :
               \E r \in Rows(ventas_raw) : r.FOLIO = x.FOLIO /\ r.EJECUTIVO = x.EJECUTIVO
        /\ (\A r \in Rows(ventas_raw) : Cardinality(Personnel(r)) <= 1)
               => Len(ventas) = Len(ventas_raw)
\* one sale of an executive who is twice in the personnel, under two
\* supervisors: two rows
C24_Witness ==
    /\ pc = "join"
    /\ Len(ventas_raw) = 1
    /\ Len(empleados) = 2
    /\ empleados[1].Nombre # empleados[2].Nombre
    /\ Len(ventas) = 2
    /\ ventas[1].Supervisor # ventas[2].Supervisor
\* a sale of an executive who is not in the personnel
C24_Baja ==
    /\ pc = "join"
    /\ Len(empleados) > 0
    /\ \E i \in 1..Len(ventas_raw) : Unmatched(ventas_raw[i])
    /\ \E i \in 1..Len(ventas) : ventas[i].Supervisor = BAJA

(***************************************************************************)
(* Who has a row in the quota table (C25)                                  *)
(***************************************************************************)
Reached == pc \in {"stop", "no_activos", "activos"}
SoldInTarget(ej) ==
    \E r \in Rows(ventas_flt) : r.EJECUTIVO = ej /\ r.T_MonthKey = meta_month_key
SoldInWindow(ej) == \E r \in Rows(ventas_flt) : r.EJECUTIVO = ej /\ InWindow(r)
HasQuotaRow(ej) ==
    /\ pc = "activos"
    /\ \E i \in 1..Len(df_metas_activos) : df_metas_activos[i].EJECUTIVO = ej
Executives == {r.EJECUTIVO : r \in Rows(ventas_flt)} \ {PyNone}

\* C25 as stated: every executive with a sale in the target month has a row
\* in the quota table, with or without a sale in the months of the window.
C25_AsStated == Reached => \A ej \in Executives : SoldInTarget(ej) => HasQuotaRow(ej)
\* C25, what the page does: an executive has a row in the quota table
\* exactly when they have a sale in the target month and a sale in a month
\* of the window; the page stops when the window has no sale or no
\* executive is left.
C25_TargetAndWindow ==
    Reached =>
        /\ \A ej \in Executives : HasQuotaRow(ej) <=> SoldInTarget(ej) /\ SoldInWindow(ej)
        /\ pc = "stop" <=> ~ \E r \in Rows(ventas_flt) : InWindow(r)
        /\ pc = "no_activos" <=>
               /\ \E r \in Rows(ventas_flt) : InWindow(r)
               /\ ~ \E ej \in Executives : SoldInTarget(ej) /\ SoldInWindow(ej)
        /\ pc = "activos" =>
               \A i \in 1..Len(df_metas_activos) :
                   \E j \in 1..Len(tally_metas) : tally_metas[j] = df_metas_activos[i]
\* two executives sell in the target month and only one of them sold in the
\* window: the quota table has the one row
C25_Witness ==
    /\ pc = "activos"
    /\ meta_month_key \notin WindowSet
    /\ Len(df_metas_activos) = 1
    /\ \E ej \in Executives : SoldInTarget(ej) /\ ~SoldInWindow(ej)

(***************************************************************************)
(* A group whose executives are all on track (C26)                         *)
(***************************************************************************)
OnTrack(r) == r.total_ventas_hechas_mes >= ExpectedByToday(r.meta_mes_actual)
AllOnTrack(members) == \A r \in Rows(members) : OnTrack(r)
TeamOf(g) == SelectSeq(df_sanity_exec, LAMBDA r : r.Supervisor = g.Supervisor)
SiteOf(g) == SelectSeq(df_sanity_exec, LAMBDA r : r.CentroKey = g.CentroKey)
\* the group's expected count is that of its summed quota: at least the sum
\* of its executives' expected counts and less than that sum plus their
\* number; with all of them on track the group's total reaches that sum,
\* and the group is on track when its expected count is no more than it
GroupOfOnTrack(g, members, quota) ==
    /\ ExpectedAndOnTrack(g, quota)
    /\ SumExpected(members) <= g.esperado_a_hoy
    /\ g.esperado_a_hoy < SumExpected(members) + Len(members)
    /\ AllOnTrack(members) => g.total_ventas_hechas >= SumExpected(members)
    /\ AllOnTrack(members) /\ g.esperado_a_hoy = SumExpected(members) => g.al_corriente
    /\ AllOnTrack(members) /\ Len(members) = 1 => g.al_corriente

\* C26 as stated: a supervisor row, a site row and the global row whose
\* executives are all on track are on track.
C26_AsStated ==
    pc = "sanity" =>
        /\ \A g \in Rows(df_sanity_team) : AllOnTrack(TeamOf(g)) => g.al_corriente
        /\ \A g \in Rows(df_sanity_centro) : AllOnTrack(SiteOf(g)) => g.al_corriente
        /\ \A g \in Rows(df_sanity_global) : AllOnTrack(df_sanity_exec) => g.al_corriente
\* C26: at every rollup the expected count is the floor of the summed quota
\* times the share elapsed, which is between the sum of the executives'
\* expected counts and that sum plus their number less one; a group whose
\* executives are all on track has a total of at least the sum of their
\* expected counts, and is on track when its own expected count equals
\* that sum, as it does for a group of one.
C26_GroupOfOnTrack ==
    pc = "sanity" =>
        /\ \A g \in Rows(df_sanity_team) : GroupOfOnTrack(g, TeamOf(g), g.meta_team)
        /\ \A g \in Rows(df_sanity_centro) : GroupOfOnTrack(g, SiteOf(g), g.meta_centro)
        /\ \A g \in Rows(df_sanity_global) : GroupOfOnTrack(g, df_sanity_exec, g.meta_global)
\* two executives with no sale on the second day of the month: each is
\* expected 0 and is on track, their team is expected 1 and is not
C26_Witness ==
    /\ pc = "sanity"
    /\ Len(df_sanity_exec) = 2
    /\ AllOnTrack(df_sanity_exec)
    /\ \E g \in Rows(df_sanity_team) :
           /\ Len(TeamOf(g)) = 2
           /\ g.esperado_a_hoy = SumExpected(TeamOf(g)) + 1
           /\ ~g.al_corriente
    /\ \E g \in Rows(df_sanity_centro) : ~g.al_corriente
    /\ ~df_sanity_global[1].al_corriente

(***************************************************************************)
(* Today counts as elapsed and as remaining (C27)                          *)
(***************************************************************************)
TodayInMonth == MonthStart <= today_d /\ today_d <= MonthEnd

\* C27: for a target month [S, E] and today t with S <= t <= E, elapsed +
\* remaining = the month total + the business-day value of t: t is in both,
\* the days before t are elapsed only and the days after t remaining only.
C27_TodayTwice ==
    pc = "sanity" /\ TodayInMonth =>
        /\ dias_hab_eq_elapsed + dias_hab_eq_remaining = dias_hab_eq_total + Weight(today_d)
        /\ dias_hab_eq_elapsed = SumWeight(MonthStart, today_d - 1) + Weight(today_d)
        /\ dias_hab_eq_remaining = Weight(today_d) + SumWeight(today_d + 1, MonthEnd)
        /\ dias_hab_eq_total =
               SumWeight(MonthStart, today_d - 1) + Weight(today_d)
                   + SumWeight(today_d + 1, MonthEnd)
\* today is a Saturday inside the month: half a day is in both counts
C27_Witness ==
    /\ pc = "sanity"
    /\ TodayInMonth
    /\ Weight(today_d) = 1
    /\ dias_hab_eq_elapsed + dias_hab_eq_remaining = dias_hab_eq_total + 1
\* today is a holiday, today is a Sunday, today is a working day
C27_Holiday == pc = "sanity" /\ TodayInMonth /\ IsHoliday(today_d) /\ weekday(today_d) # 6
C27_WorkingDay == pc = "sanity" /\ TodayInMonth /\ Weight(today_d) = 2

(***************************************************************************)
(* The range of the expected count (C28)                                   *)
(***************************************************************************)
\* the expected count of a row lies between 0 and the quota, is 0 before the
\* month and the quota from its last day on, and a row without gap is on
\* track
ExpectedInRange(expected, quota, gap, on_track) ==
    /\ 0 <= expected /\ expected <= quota
    /\ today_d < MonthStart => expected = 0
    /\ today_d >= MonthEnd => expected = quota
    /\ gap <= 0 => on_track

\* C28: per executive and in every rollup, 0 <= expected by today <= quota,
\* expected by today is 0 when today is before the month and the quota when
\* today is its last day or later; a row whose gap is <= 0 is on track, and
\* the gap of an executive is painted as behind only when it is > 0.
C28_ExpectedInRange ==
    pc = "sanity" =>
        /\ \A i \in 1..Len(df_sanity_exec) :
               /\ ExpectedInRange(tmp_for_style[i].esperado_a_hoy,
                                  df_sanity_exec[i].meta_mes_actual,
                                  df_sanity_exec[i].gap_meta, tmp_for_style[i].al_corriente)
               /\ highlight_gap_dynamic(df_sanity_exec[i], tmp_for_style)
                      => df_sanity_exec[i].gap_meta > 0
        /\ \A g \in Rows(df_sanity_team) :
               ExpectedInRange(g.esperado_a_hoy, g.meta_team, g.gap_team, g.al_corriente)
        /\ \A g \in Rows(df_sanity_centro) :
               ExpectedInRange(g.esperado_a_hoy, g.meta_centro, g.gap_centro, g.al_corriente)
        /\ \A g \in Rows(df_sanity_global) :
               ExpectedInRange(g.esperado_a_hoy, g.meta_global, g.gap_global, g.al_corriente)
\* on the last day of the month one executive is over the quota and on
\* track, another is under it, behind and painted
C28_Witness ==
    /\ pc = "sanity"
    /\ today_d = MonthEnd
    /\ \E i \in 1..Len(df_sanity_exec) :
           /\ df_sanity_exec[i].gap_meta < 0
           /\ tmp_for_style[i].esperado_a_hoy = df_sanity_exec[i].meta_mes_actual
           /\ tmp_for_style[i].al_corriente
           /\ ~highlight_gap_dynamic(df_sanity_exec[i], tmp_for_style)
    /\ \E i \in 1..Len(df_sanity_exec) :
           /\ df_sanity_exec[i].gap_meta > 0
           /\ highlight_gap_dynamic(df_sanity_exec[i], tmp_for_style)
\* before the month nothing is expected and nobody is painted
C28_BeforeMonth ==
    /\ pc = "sanity"
    /\ today_d < MonthStart
    /\ \A i \in 1..Len(df_sanity_exec) :
           tmp_for_style[i].esperado_a_hoy = 0
               /\ ~highlight_gap_dynamic(df_sanity_exec[i], tmp_for_style)

(***************************************************************************)
(* The range of the rate required from today (C29)                         *)
(***************************************************************************)
\* the divisor of the rate, in half days: no day at all, or a day or more
DivisorOfRate == remaining_for_rate(dias_hab_eq_remaining)
\* the rate of a row is not negative, is 0 exactly when the row has no gap,
\* and is at most the gap
RateInRange(g, gap) ==
    LET rate == g.ventas_diarias_necesarias_desde_hoy
    IN /\ rate.den > 0
       /\ rate.num >= 0
       /\ rate.num = 0 <=> gap <= 0
       /\ rate.num <= Positive(gap) * rate.den
       /\ DivisorOfRate = 0 => frac_eq(rate, Frac(Positive(gap), 1))

\* C29: at every level the rate required from today is >= 0, is 0 exactly
\* when gap <= 0, and never exceeds max(gap, 0); the divisor is either 0,
\* and then the rate is max(gap, 0), or at least one day.
C29_RateInRange ==
    pc = "sanity" =>
        /\ DivisorOfRate = 0 \/ DivisorOfRate >= 2
        /\ \A g \in Rows(df_sanity_exec) : RateInRange(g, g.gap_meta)
        /\ \A g \in Rows(df_sanity_team) : RateInRange(g, g.gap_team)
        /\ \A g \in Rows(df_sanity_centro) : RateInRange(g, g.gap_centro)
        /\ \A g \in Rows(df_sanity_global) : RateInRange(g, g.gap_global)
\* half a day remains and counts as a day: the rate of an executive with a
\* gap is the gap, the rate of one over the quota is 0
C29_Witness ==
    /\ pc = "sanity"
    /\ dias_hab_eq_remaining = 1 /\ DivisorOfRate = 2
    /\ \E g \in Rows(df_sanity_exec) :
           g.gap_meta > 0
               /\ frac_eq(g.ventas_diarias_necesarias_desde_hoy, Frac(g.gap_meta, 1))
    /\ \E g \in Rows(df_sanity_exec) :
           g.gap_meta < 0 /\ g.ventas_diarias_necesarias_desde_hoy.num = 0
\* the month is over: the divisor is 0 and the rate is the gap undivided
C29_MonthOver ==
    /\ pc = "sanity"
    /\ DivisorOfRate = 0
    /\ \E g \in Rows(df_sanity_team) :
           g.gap_team > 0 /\ g.ventas_diarias_necesarias_desde_hoy = Frac(g.gap_team, 1)
\* several days remain: the rate is under the gap
C29_UnderGap ==
    /\ pc = "sanity"
    /\ DivisorOfRate > 2
    /\ \E g \in Rows(df_sanity_global) :
           g.gap_global > 0
               /\ frac_gt(Frac(g.gap_global, 1), g.ventas_diarias_necesarias_desde_hoy)

(***************************************************************************)
(* The quota as a function of the rolling average (C30)                    *)
(***************************************************************************)
\* the averages of up to WindowMonths monthly counts, and some others
Averages == {Frac(n, d) : n \in 0..(MaxCount * WindowMonths), d \in 1..WindowMonths}
frac_le(a, b) == ~frac_gt(a, b)
\* the quota q that rule gives for tenure ten and average prom
QuotaOfAverage(ten, prom, q, rule(_, _)) ==
    /\ q \in Nat /\ q >= 6
    /\ q = 6 => ten < 41
    /\ ten >= 41 =>
           /\ frac_gt(Frac(6, 1), prom) => q = 7
           /\ frac_le(Frac(6, 1), prom) /\ frac_gt(Frac(8, 1), prom) => q = 8
           /\ \A a \in Averages :
                  /\ frac_le(a, prom) => rule(ten, a) <= q
                  /\ frac_le(prom, a) => q <= rule(ten, a)

\* C30: the quota of an active executive is an integer >= 6, is 6 only for
\* a tenure under 41 days, and for a tenure of 41 days or more does not
\* decrease when the rolling average grows, being 7 for every average
\* under 6 and 8 for every average from 6 to under 8; in the simulation
\* table and in the quota table of the target month.
C30_QuotaOfAverage ==
    /\ pc = "sim" =>
           \A r \in Rows(df_sim) :
               r.status = "ACTIVO" =>
                   QuotaOfAverage(r.dias_activo_al_1ro, r.promedio,
                                  r.meta_simulacion, meta_simulacion)
    /\ pc = "metas" =>
           \A r \in Rows(df_metas) :
               QuotaOfAverage(r.dias_activo_al_1ro, r.prom_ult_3m,
                              r.meta_mes_actual, meta_mes)
\* two executives of a long tenure in the quota table, the one with the
\* average under 6 at 7 and the one with the average 7 at 8
C30_Witness ==
    /\ pc = "metas"
    /\ \E r, s \in Rows(df_metas) :
           /\ r.dias_activo_al_1ro >= 41 /\ s.dias_activo_al_1ro >= 41
           /\ frac_gt(Frac(6, 1), r.prom_ult_3m) /\ r.meta_mes_actual = 7
           /\ frac_eq(Frac(7, 1), s.prom_ult_3m) /\ s.meta_mes_actual = 8
\* an active executive of the simulation with an average strictly between
\* 6 and 7 has the quota 8
C30_SixToSeven ==
    /\ pc = "sim"
    /\ \E r \in Rows(df_sim) :
           /\ r.status = "ACTIVO" /\ r.dias_activo_al_1ro >= 41
           /\ frac_gt(r.promedio, Frac(6, 1)) /\ frac_gt(Frac(7, 1), r.promedio)
           /\ r.meta_simulacion = 8
\* the average 8 gives 9, and a tenure of 40 days gives 6 whatever the average
C30_EightAndNewHire ==
    /\ pc = "metas"
    /\ \E r \in Rows(df_metas) :
           frac_eq(r.prom_ult_3m, Frac(8, 1))
               /\ (r.dias_activo_al_1ro = 41 => r.meta_mes_actual = 9)
               /\ (r.dias_activo_al_1ro = 40 => r.meta_mes_actual = 6)
               /\ r.dias_activo_al_1ro \in {40, 41}
====
